---- MODULE Spec2Model ----
(***************************************************************************)
(* Exam-paper question detection and marking overlay                       *)
(* (training/trainapp/pdf_utils.py).                                       *)
(*                                                                         *)
(* A text is a tuple of one-character strings, so that the regular         *)
(* expressions, int(), str() and lower() of the source are computed        *)
(* character by character.                                                 *)
(***************************************************************************)
EXTENDS Integers, Sequences, FiniteSets, TLC

VARIABLES
    doc,                 \* the PDF's text structure: the spans, in page then layout order
    dpc,                 \* position of detect_questions_in_pdf
    dHandle,             \* detector.doc is an open document
    question_mapping,    \* detector.question_mapping: [keys: insertion order, val: key -> info]
    detected_questions,  \* detector.detected_questions
    dResult,             \* what detect_questions_in_pdf returned: [mapping, count]
    dFile,               \* the file at pdf_path: [openable, pages]
    dOpens,              \* the documents fitz.open returned to the detector
    dCloses,             \* the documents the detector closed
    dEarlier,            \* what the earlier detect_questions calls on the detector answered
    dError,              \* the failure that made detect_questions_in_pdf raise
    sortIn,              \* the list given to _sort_questions
    sortOut,             \* [done, list]: the list _sort_questions returned
    source,              \* the source PDF of a marking: [openable, pages]
    marks,               \* the correctness dict, in insertion order: <<[id, is_correct]>>
    template,            \* the question mapping given to the marker: id -> info
    mpc,                 \* position of mark_pdf_submission
    mDoc,                \* marker.doc: [open, texts], texts the inserted page texts
    mOpens,              \* the documents fitz.open returned during the call
    mCloses,             \* the documents closed during the call
    mSummary,            \* the summary block inserted on page 0, <<>> when none
    mOutput,             \* the file at output_path: [written, texts, summary]
    mError,              \* the failure that made the call raise
    calls,               \* the mark_pdf_submission calls that share one template
    tpc,                 \* position of the run that persists a template and reuses it
    stored,              \* ExamTemplate.question_mapping as the JSON column holds it
    tFirst,              \* the file marked with the mapping as detect_questions_in_pdf returned it
    examFile,            \* exam.file is set and os.path.exists(exam.file.path)
    submission,          \* the Submission row: [score, graded]
    distribution,        \* ExamDistribution.status of the exam and driver
    marked,              \* the MarkedExamSubmission row of the submission
    answers,             \* the QuestionAnswer rows: question_number -> is_correct
    audit,               \* the actions of the AuditHistory rows, oldest first
    disk,                \* the files under MEDIA_ROOT/marked_submissions: path -> file
    now,                 \* timezone.now() in seconds
    served,              \* the requests that have arrived
    fpc,                 \* position of fast_mark_exam in the request being served
    fMapping,            \* the local question_mapping of fast_mark_exam
    fDetected,           \* the local detected_questions of fast_mark_exam
    fNotice,             \* the local detection_error
    fPath,               \* the local marked_pdf_path
    response,            \* what fast_mark_exam answered to the latest request
    marking,             \* the latest request that marked: [no, mode, score or checked]
    reqs,                \* the fast_mark_exam requests served at the same time
    rowLocks,            \* the database locks a row saved in an open transaction
    posted               \* the latest request to mark_exam_paper: [method, score, notes]

dvars == <<doc, dpc, dHandle, question_mapping, detected_questions, dResult,
           dFile, dOpens, dCloses, dEarlier, dError>>
svars == <<sortIn, sortOut>>
mvars == <<source, marks, template, mpc, mDoc, mOpens, mCloses, mSummary, mOutput, mError>>
cvars == <<calls>>
tvars == <<tpc, stored, tFirst>>
fvars == <<examFile, submission, distribution, marked, answers, audit, disk, now,
           served, fpc, fMapping, fDetected, fNotice, fPath, response, marking>>
fRest == <<examFile, submission, distribution, marked, answers, audit, served, fpc,
           fMapping, fDetected, fNotice, fPath, response, marking>>
rvars == <<reqs, rowLocks>>
pvars == <<posted>>
wvars == <<tvars, fvars, rvars, pvars>>

vars == <<dvars, svars, mvars, cvars, wvars>>

----------------------------------------------------------------------------
(* Characters *)

Digits == <<"0", "1", "2", "3", "4", "5", "6", "7", "8", "9">>
Lower == <<"a", "b", "c", "d", "e", "f", "g", "h", "i", "j", "k", "l", "m",
           "n", "o", "p", "q", "r", "s", "t", "u", "v", "w", "x", "y", "z">>
Upper == <<"A", "B", "C", "D", "E", "F", "G", "H", "I", "J", "K", "L", "M",
           "N", "O", "P", "Q", "R", "S", "T", "U", "V", "W", "X", "Y", "Z">>

\* The characters of the model in code point order (str comparison of sorted()).
CodePoints == <<" ", "(", ")", "-", ".">> \o Digits \o <<":", "?">> \o Upper \o Lower

Range(s) == {s[i] : i \in DOMAIN s}

IndexIn(c, s) == CHOOSE i \in DOMAIN s : s[i] = c

DigitSet == Range(Digits)
LowerSet == Range(Lower)
UpperSet == Range(Upper)

IsDigit(c) == c \in DigitSet                \* \d
IsLower(c) == c \in LowerSet                \* [a-z]
IsLetter(c) == c \in LowerSet \/ c \in UpperSet   \* [a-zA-Z]
IsSpace(c) == c = " "                       \* \s
IsPunct(c) == c \in {".", ")", ":", "-"}    \* [\.\):\-]

\* The character at position i, "" past the end of the text.
CharAt(s, i) == IF i \in DOMAIN s THEN s[i] ELSE ""

\* str.lower() of one character
ToLower(c) == IF c \in UpperSet THEN Lower[IndexIn(c, Upper)] ELSE c

\* int() of a run of digits
RECURSIVE ParseInt(_)
ParseInt(ds) ==
    IF ds = <<>> THEN 0
    ELSE 10 * ParseInt(SubSeq(ds, 1, Len(ds) - 1)) + (IndexIn(ds[Len(ds)], Digits) - 1)

\* int() raises ValueError for a string of more than sys.int_max_str_digits
\* digits (4300 by default); the model scales the limit down to 4 digits.
MaxStrDigits == 4
IntParses(ds) == Len(ds) <= MaxStrDigits

\* str() of a non-negative integer
RECURSIVE IntToStr(_)
IntToStr(n) ==
    IF n < 10 THEN <<Digits[n + 1]>>
    ELSE IntToStr(n \div 10) \o <<Digits[(n % 10) + 1]>>

\* Python's str < str: lexicographic by code point
RECURSIVE StrLess(_, _)
StrLess(a, b) ==
    IF b = <<>> THEN FALSE
    ELSE IF a = <<>> THEN TRUE
    ELSE IF a[1] # b[1] THEN IndexIn(a[1], CodePoints) < IndexIn(b[1], CodePoints)
    ELSE StrLess(Tail(a), Tail(b))

\* str.strip()
RECURSIVE LStrip(_)
LStrip(s) == IF s # <<>> /\ IsSpace(s[1]) THEN LStrip(Tail(s)) ELSE s

RECURSIVE RStrip(_)
RStrip(s) ==
    IF s # <<>> /\ IsSpace(s[Len(s)]) THEN RStrip(SubSeq(s, 1, Len(s) - 1)) ELSE s

Strip(s) == RStrip(LStrip(s))

----------------------------------------------------------------------------
(* The regular expressions of QUESTION_PATTERNS.  Every repetition (\s*,  *)
(* \d+) is followed by a character outside the repeated class, so the     *)
(* greedy match is the only one and the matcher is deterministic.         *)

\* \s* from position i: the first position at or after i that is not a space
RECURSIVE SkipSpaces(_, _)
SkipSpaces(s, i) == IF IsSpace(CharAt(s, i)) THEN SkipSpaces(s, i + 1) ELSE i

\* \d* from position i: the first position at or after i that is not a digit
RECURSIVE SkipDigits(_, _)
SkipDigits(s, i) == IF IsDigit(CharAt(s, i)) THEN SkipDigits(s, i + 1) ELSE i

NoMatch == [matched |-> FALSE]
MatchOf(g1, g2) == [matched |-> TRUE, group1 |-> g1, group2 |-> g2]

\* r'^\s*(\d+)\s*\(\s*([a-zA-Z])\s*\)\s*[\.\):\-]?\s*'
MatchSubpartParen(s) ==
    LET a == SkipSpaces(s, 1)
        b == SkipDigits(s, a)
        c == SkipSpaces(s, b)
        d == SkipSpaces(s, c + 1)
        e == SkipSpaces(s, d + 1)
    IN  IF /\ b > a
           /\ CharAt(s, c) = "("
           /\ IsLetter(CharAt(s, d))
           /\ CharAt(s, e) = ")"
        THEN MatchOf(SubSeq(s, a, b - 1), <<s[d]>>)
        ELSE NoMatch

\* r'^\s*(\d+)\s*([a-zA-Z])\s*[\)\.\:\-]\s*'
MatchSubpartLetter(s) ==
    LET a == SkipSpaces(s, 1)
        b == SkipDigits(s, a)
        c == SkipSpaces(s, b)
        d == SkipSpaces(s, c + 1)
    IN  IF /\ b > a
           /\ IsLetter(CharAt(s, c))
           /\ IsPunct(CharAt(s, d))
        THEN MatchOf(SubSeq(s, a, b - 1), <<s[c]>>)
        ELSE NoMatch

\* MatchNumbered with "(" added to the character class after the number.
MatchNumbered_OpenParen(s) ==
    LET a == SkipSpaces(s, 1)
        b == SkipDigits(s, a)
        c == SkipSpaces(s, b)
    IN  IF b > a /\ (IsPunct(CharAt(s, c)) \/ CharAt(s, c) = "(")
        THEN MatchOf(SubSeq(s, a, b - 1), <<>>)
        ELSE NoMatch

\* r'^\s*(\d+)\s*[\.\):\-]\s*'
MatchNumbered(s) ==
    LET a == SkipSpaces(s, 1)
        b == SkipDigits(s, a)
        c == SkipSpaces(s, b)
    IN  IF b > a /\ IsPunct(CharAt(s, c))
        THEN MatchOf(SubSeq(s, a, b - 1), <<>>)
        ELSE NoMatch

\* r'^\s*Q\s*(\d+)\s*[\.\):\-]?\s*'
MatchQ(s) ==
    LET a == SkipSpaces(s, 1)
        b == SkipSpaces(s, a + 1)
        c == SkipDigits(s, b)
    IN  IF CharAt(s, a) = "Q" /\ c > b
        THEN MatchOf(SubSeq(s, b, c - 1), <<>>)
        ELSE NoMatch

QuestionWord == <<"Q", "u", "e", "s", "t", "i", "o", "n">>

\* r'^\s*Question\s+(\d+)\s*[\.\):\-]?\s*'
MatchQuestionWord(s) ==
    LET a == SkipSpaces(s, 1)
        w == a + Len(QuestionWord)
        b == SkipSpaces(s, w)
        c == SkipDigits(s, b)
    IN  IF /\ w - 1 <= Len(s)
           /\ SubSeq(s, a, w - 1) = QuestionWord
           /\ b > w
           /\ c > b
        THEN MatchOf(SubSeq(s, b, c - 1), <<>>)
        ELSE NoMatch

\* r'^\s*\(\s*(\d+)\s*\)\s*'
MatchParenthetical(s) ==
    LET a == SkipSpaces(s, 1)
        b == SkipSpaces(s, a + 1)
        c == SkipDigits(s, b)
        d == SkipSpaces(s, c)
    IN  IF CharAt(s, a) = "(" /\ c > b /\ CharAt(s, d) = ")"
        THEN MatchOf(SubSeq(s, b, c - 1), <<>>)
        ELSE NoMatch

\* The question type of each pattern, in the order of the list.
QUESTION_PATTERNS == <<"subpart", "subpart", "simple", "simple", "simple", "simple">>

\* re.match(pattern, text) for the k-th pattern of the list
ReMatch(k, s) ==
    CASE k = 1 -> MatchSubpartParen(s)
      [] k = 2 -> MatchSubpartLetter(s)
      [] k = 3 -> MatchNumbered(s)
      [] k = 4 -> MatchQ(s)
      [] k = 5 -> MatchQuestionWord(s)
      [] k = 6 -> MatchParenthetical(s)

----------------------------------------------------------------------------
(* Documents and failures *)

\* No exception is on its way to the caller.
NoError == [raised |-> FALSE]

\* "if not self.doc: self.open_pdf()" at the head of
\* extract_text_with_coordinates, of overlay_marks and of add_score_summary:
\* the number of documents opened by it.
Reopened(cond) == IF cond THEN 1 ELSE 0

----------------------------------------------------------------------------
(* PDFQuestionDetector *)

\* int(match.group(1)) of the sub-part branch raises ValueError, which the
\* except clause of the loop turns into "continue".
ParseFails(question_type, match) ==
    question_type = "subpart" /\ ~IntParses(match.group1)

\* extract_text_with_coordinates: the text blocks of the spans of text-type
\* blocks whose stripped text is not empty, in document order.
RECURSIVE extract_text_with_coordinates(_)
extract_text_with_coordinates(d) ==
    IF d = <<>> THEN <<>>
    ELSE LET span == d[1]
             text == Strip(span.text)
         IN  (IF span.type = 0 /\ text # <<>>
              THEN <<[text |-> text, page |-> span.page, x0 |-> span.x0, y0 |-> span.y0]>>
              ELSE <<>>)
             \o extract_text_with_coordinates(Tail(d))

\* QuestionId without sub_letter.lower().
QuestionId_KeepCase(question_type, match) ==
    IF question_type = "subpart"
    THEN IntToStr(ParseInt(match.group1)) \o match.group2
    ELSE match.group1

\* The identifier built from a match of a pattern of the given question type.
QuestionId(question_type, match) ==
    IF question_type = "subpart"
    THEN IntToStr(ParseInt(match.group1)) \o <<ToLower(match.group2[1])>>
    ELSE match.group1

\* The entry stored for a block matched by a pattern of the given type.
QuestionInfo(block, question_type) ==
    [page |-> block.page, x |-> block.x0, y |-> block.y0,
     text |-> block.text, question_type |-> question_type]

\* ScanPattern with the test "question_id not in question_mapping" dropped
\* from the assignment: a later occurrence overwrites the entry.
ScanPattern_Overwrite(st, block, k) ==
    LET match == ReMatch(k, block.text)
    IN  IF ~match.matched \/ ParseFails(QUESTION_PATTERNS[k], match) THEN st
        ELSE LET question_id == QuestionId(QUESTION_PATTERNS[k], match)
                 info == QuestionInfo(block, QUESTION_PATTERNS[k])
             IN  IF question_id \in DOMAIN st.mapping
                 THEN [mapping |-> [st.mapping EXCEPT ![question_id] = info],
                       detected |-> st.detected]
                 ELSE [mapping |-> st.mapping @@ (question_id :> info),
                       detected |-> Append(st.detected, question_id)]

\* ScanPattern with detected_questions.append outside the "not in" test: a
\* repeated identifier is listed again.
ScanPattern_ListsRepeats(st, block, k) ==
    LET match == ReMatch(k, block.text)
    IN  IF ~match.matched \/ ParseFails(QUESTION_PATTERNS[k], match) THEN st
        ELSE LET question_id == QuestionId(QUESTION_PATTERNS[k], match)
                 info == QuestionInfo(block, QUESTION_PATTERNS[k])
             IN  [mapping |-> IF question_id \in DOMAIN st.mapping THEN st.mapping
                              ELSE st.mapping @@ (question_id :> info),
                  detected |-> Append(st.detected, question_id)]

\* One iteration of the inner loop: pattern k tried on the block.  st is the
\* pair of locals [mapping, detected] of detect_questions.
ScanPattern(st, block, k) ==
    LET match == ReMatch(k, block.text)
    IN  IF ~match.matched \/ ParseFails(QUESTION_PATTERNS[k], match) THEN st
        ELSE LET question_id == QuestionId(QUESTION_PATTERNS[k], match)
             IN  IF question_id \in DOMAIN st.mapping THEN st
                 ELSE [mapping |-> st.mapping @@
                                   (question_id :> QuestionInfo(block, QUESTION_PATTERNS[k])),
                       detected |-> Append(st.detected, question_id)]

\* The inner loop over QUESTION_PATTERNS from pattern k on; the loop has no
\* break, so every pattern is tried on every block.
RECURSIVE ScanPatterns(_, _, _)
ScanPatterns(st, block, k) ==
    IF k > Len(QUESTION_PATTERNS) THEN st
    ELSE ScanPatterns(ScanPattern(st, block, k), block, k + 1)

\* The outer loop over the text blocks.
RECURSIVE ScanBlocks(_, _)
ScanBlocks(st, blocks) ==
    IF blocks = <<>> THEN st
    ELSE ScanBlocks(ScanPatterns(st, blocks[1], 1), Tail(blocks))

\* The locals at the start of detect_questions with the list taken over
\* from the detector instead of starting empty.
EmptyScan_KeepsList == [mapping |-> <<>>, detected |-> detected_questions]

\* The locals at the start of detect_questions: an empty dict and list.
EmptyScan == [mapping |-> <<>>, detected |-> <<>>]

\* sort_key of _sort_questions: r'^(\d+)([a-z])?$'
sort_key(q) ==
    LET b == SkipDigits(q, 1)
    IN  IF b > 1 /\ b = Len(q) + 1 THEN <<ParseInt(q), <<>>>>
        ELSE IF b > 1 /\ b = Len(q) /\ IsLower(q[b])
             THEN <<ParseInt(SubSeq(q, 1, b - 1)), <<q[b]>>>>
        ELSE <<999, q>>

\* int(match.group(1)) of sort_key raises ValueError for one of the
\* identifiers; sorted() lets it through to the caller.
SortRaises(questions) ==
    \E i \in DOMAIN questions :
        LET q == questions[i]
            b == SkipDigits(q, 1)
        IN  /\ b > 1
            /\ b = Len(q) + 1 \/ (b = Len(q) /\ IsLower(q[b]))
            /\ ~IntParses(SubSeq(q, 1, b - 1))

\* key of the plain sorted(): the string itself
plain_key(q) == <<0, q>>

\* Python's tuple comparison of two (int, str) keys
KeyLess(k1, k2) == k1[1] < k2[1] \/ (k1[1] = k2[1] /\ StrLess(k1[2], k2[2]))

\* The key sorted() compares: sort_key when one is given, else the string.
KeyOf(q, keyed) == IF keyed THEN sort_key(q) ELSE plain_key(q)

\* x inserted into the sorted list after every element whose key is not
\* greater (sorted() is stable).
InsertByKey(sorted, x, keyed) ==
    LET p == Cardinality({i \in DOMAIN sorted :
                             ~KeyLess(KeyOf(x, keyed), KeyOf(sorted[i], keyed))})
    IN  SubSeq(sorted, 1, p) \o <<x>> \o SubSeq(sorted, p + 1, Len(sorted))

\* sorted(questions)
RECURSIVE sorted_plain(_)
sorted_plain(questions) ==
    IF questions = <<>> THEN <<>>
    ELSE InsertByKey(sorted_plain(SubSeq(questions, 1, Len(questions) - 1)),
                     questions[Len(questions)], FALSE)

\* _sort_questions sorting the strings themselves.
sort_questions_plain(questions) == sorted_plain(questions)

\* _sort_questions: sorted(questions, key=sort_key)
RECURSIVE sort_questions(_)
sort_questions(questions) ==
    IF questions = <<>> THEN <<>>
    ELSE InsertByKey(sort_questions(SubSeq(questions, 1, Len(questions) - 1)),
                     questions[Len(questions)], TRUE)

\* The keys of a dict filled in the given order: a key keeps the place of
\* its first insertion.
RECURSIVE FirstInsertions(_)
FirstInsertions(order) ==
    IF order = <<>> THEN <<>>
    ELSE LET front == FirstInsertions(SubSeq(order, 1, Len(order) - 1))
             last == order[Len(order)]
         IN  IF last \in Range(front) THEN front ELSE Append(front, last)

\* The dict built by the comprehension {str(q): question_mapping[q] for q in order}.
DictInOrder(order, mapping) ==
    [keys |-> FirstInsertions(order), val |-> [q \in Range(order) |-> mapping[q]]]

EmptyDict == [keys |-> <<>>, val |-> <<>>]

----------------------------------------------------------------------------
(* The documents of the model *)

\* The most spans a document of the model holds.
MaxSpans == 3

\* The span texts of the model: every label format of QUESTION_PATTERNS,
\* labels that repeat an identifier in another format or with leading
\* zeros, and a text with no label.
SampleTexts ==
    { <<"1", ".", " ", "X", "?">>,          \* 1. X?
      <<"1", "(", "a", ")">>,               \* 1(a)
      <<"1", "(", "A", ")">>,               \* 1(A)
      <<"0", "1", " ", "(", "a", ")">>,     \* 01 (a)
      <<"1", "a", ")">>,                    \* 1a)
      <<"1", "b", ".">>,                    \* 1b.
      <<"2", ".">>,                         \* 2.
      <<"7", ".">>,                         \* 7.
      <<"0", "0", "7", ".">>,               \* 007.
      <<"1", "0", ".">>,                    \* 10.
      <<"Q", "1">>,                         \* Q1
      <<"Q", "u", "e", "s", "t", "i", "o", "n", " ", "3">>,   \* Question 3
      <<"(", "4", ")">>,                    \* (4)
      <<" ", "X", "?", " ">> }              \* X? between spaces

\* A span is a text in a block of type 0 (text) or 1 (image).
SampleSpans ==
    [type : {0}, text : SampleTexts] \cup {[type |-> 1, text |-> <<"2", ".">>]}

\* The document with the given spans: two spans to a page, each span at a
\* position of its own.
LayOut(spans) ==
    [i \in DOMAIN spans |->
        [type |-> spans[i].type, text |-> spans[i].text,
         page |-> (i - 1) \div 2,
         x0 |-> 40 + 5 * i, y0 |-> 100 * i]]

\* The most detect_questions calls made on one detector.
MaxRuns == 2

\* The span texts of the runs that follow the detector through failures and
\* repeated calls: labels in and out of order, a repeat, a text with no
\* label, and labels whose number is too long for int().
RunTexts ==
    { <<"1", ".", " ", "X", "?">>,          \* 1. X?
      <<"1", "(", "A", ")">>,               \* 1(A)
      <<"2", ".">>,                         \* 2.
      <<"1", "0", ".">>,                    \* 10.
      <<" ", "X", "?", " ">>,               \* X? between spaces
      <<"1", "2", "3", "4", "5", ".">>,     \* 12345.
      <<"1", "2", "3", "4", "5", "a", ")">> }   \* 12345a)

RunSpans == [type : {0}, text : RunTexts] \cup {[type |-> 1, text |-> <<"2", ".">>]}

----------------------------------------------------------------------------
(* detect_questions_in_pdf *)

\* The pages of a file of n spans laid out two to a page; a file without
\* text has one blank page.
PagesOf(n) == IF n = 0 THEN 1 ELSE (n + 1) \div 2

\* The detector after PDFQuestionDetector(pdf_path), the file at pdf_path
\* being a document of spans of S, a document of no page, or no document.
DetectInitOver(S) ==
    /\ \/ \E n \in 0..MaxSpans : \E spans \in [1..n -> S] :
             /\ doc = LayOut(spans)
             /\ dFile = [openable |-> TRUE, pages |-> PagesOf(n)]
       \/ /\ doc = <<>>
          /\ dFile \in [openable : BOOLEAN, pages : {0}]
    /\ dpc = "start"
    /\ dHandle = FALSE
    /\ question_mapping = EmptyDict
    /\ detected_questions = <<>>
    /\ dResult = [returned |-> FALSE]
    /\ dOpens = 0
    /\ dCloses = 0
    /\ dEarlier = <<>>
    /\ dError = NoError

\* The files of the runs in which neither the file nor the library fails.
DetectInit == DetectInitOver(SampleSpans) /\ dFile.openable

\* bool(detector.doc): a document is an object with __len__, so an open
\* document of zero pages is false, like None.
DetectorDocTruthy == dHandle /\ dFile.pages > 0

\* detector.open_pdf(): fitz.open succeeds
detector_open_pdf ==
    /\ dpc = "start"
    /\ dFile.openable
    /\ dHandle' = TRUE
    /\ dOpens' = dOpens + 1
    /\ dpc' = "opened"
    /\ UNCHANGED <<doc, question_mapping, detected_questions, dResult,
                   dFile, dCloses, dEarlier, dError>>
    /\ UNCHANGED <<svars, mvars, cvars, wvars>>

\* detector.open_pdf(): fitz.open raises, and open_pdf raises ValueError
detector_open_pdf_raises ==
    /\ dpc = "start"
    /\ ~dFile.openable
    /\ dError' = [raised |-> TRUE, stage |-> "open", cause |-> "fitz.open"]
    /\ dpc' = "raising"
    /\ UNCHANGED <<doc, dHandle, question_mapping, detected_questions, dResult,
                   dFile, dOpens, dCloses, dEarlier>>
    /\ UNCHANGED <<svars, mvars, cvars, wvars>>

\* The locals question_mapping and detected_questions of detect_questions
\* after its loops over the text blocks of the document.
Scan(d) == ScanBlocks(EmptyScan, extract_text_with_coordinates(d))

\* What the detector says of itself after a detect_questions call.
Answer == [mapping |-> question_mapping, count |-> Len(detected_questions)]

\* detect_questions refusing to return when no label was detected.
detect_questions_NeedsMatch ==
    /\ dpc = "opened"
    /\ LET scan == Scan(doc)
           natural == sort_questions(scan.detected)
       IN  /\ ~SortRaises(scan.detected)
           /\ scan.detected # <<>>
           /\ question_mapping' = DictInOrder(natural, scan.mapping)
           /\ detected_questions' = sorted_plain(scan.detected)
    /\ dOpens' = dOpens + Reopened(~DetectorDocTruthy)
    /\ dpc' = "detected"
    /\ UNCHANGED <<doc, dHandle, dResult, dFile, dCloses, dEarlier, dError>>
    /\ UNCHANGED <<svars, mvars, cvars, wvars>>

\* detector.detect_questions() returns
detect_questions ==
    /\ dpc = "opened"
    /\ LET scan == Scan(doc)
           natural == sort_questions(scan.detected)
       IN  /\ ~SortRaises(scan.detected)
           /\ question_mapping' = DictInOrder(natural, scan.mapping)
           /\ detected_questions' = sorted_plain(scan.detected)
    /\ dOpens' = dOpens + Reopened(~DetectorDocTruthy)
    /\ dpc' = "detected"
    /\ UNCHANGED <<doc, dHandle, dResult, dFile, dCloses, dEarlier, dError>>
    /\ UNCHANGED <<svars, mvars, cvars, wvars>>

\* detector.detect_questions() raises: a library call of the extraction
\* failed on a page, or _sort_questions raised ValueError
detect_questions_raises ==
    /\ dpc = "opened"
    /\ \/ /\ dFile.pages > 0
          /\ dError' = [raised |-> TRUE, stage |-> "extract", cause |-> "library"]
       \/ /\ SortRaises(Scan(doc).detected)
          /\ dError' = [raised |-> TRUE, stage |-> "sort", cause |-> "ValueError"]
    /\ dOpens' = dOpens + Reopened(~DetectorDocTruthy)
    /\ dpc' = "raising"
    /\ UNCHANGED <<doc, dHandle, question_mapping, detected_questions, dResult,
                   dFile, dCloses, dEarlier>>
    /\ UNCHANGED <<svars, mvars, cvars, wvars>>

\* One more detector.detect_questions() on the same detector, the document
\* still open; dEarlier keeps what the call before it had answered.
detect_again ==
    /\ dpc = "detected"
    /\ Len(dEarlier) + 1 < MaxRuns
    /\ LET scan == Scan(doc)
           natural == sort_questions(scan.detected)
       IN  /\ ~SortRaises(scan.detected)
           /\ question_mapping' = DictInOrder(natural, scan.mapping)
           /\ detected_questions' = sorted_plain(scan.detected)
    /\ dEarlier' = Append(dEarlier, Answer)
    /\ dOpens' = dOpens + Reopened(~DetectorDocTruthy)
    /\ UNCHANGED <<doc, dpc, dHandle, dResult, dFile, dCloses, dError>>
    /\ UNCHANGED <<svars, mvars, cvars, wvars>>

\* detector.close_pdf(), which closes a document that is true
DetectorClose ==
    /\ dHandle' = IF DetectorDocTruthy THEN FALSE ELSE dHandle
    /\ dCloses' = dCloses + Reopened(DetectorDocTruthy)

\* count = detector.get_detected_question_count(); return question_mapping,
\* count; finally: detector.close_pdf()
detect_return ==
    /\ dpc = "detected"
    /\ dResult' = [returned |-> TRUE, mapping |-> question_mapping,
                   count |-> Len(detected_questions)]
    /\ DetectorClose
    /\ dpc' = "returned"
    /\ UNCHANGED <<doc, question_mapping, detected_questions, dFile, dOpens, dEarlier, dError>>
    /\ UNCHANGED <<svars, mvars, cvars, wvars>>

\* An exception leaves detect_questions_in_pdf; finally: detector.close_pdf()
detect_raise ==
    /\ dpc = "raising"
    /\ DetectorClose
    /\ dpc' = "raised"
    /\ UNCHANGED <<doc, question_mapping, detected_questions, dResult,
                   dFile, dOpens, dEarlier, dError>>
    /\ UNCHANGED <<svars, mvars, cvars, wvars>>

\* detect_questions_in_pdf when nothing fails, and when something does.
DetectNext == detector_open_pdf \/ detect_questions \/ detect_return
DetectFails == detector_open_pdf_raises \/ detect_questions_raises \/ detect_raise

----------------------------------------------------------------------------
(* _sort_questions applied to a list of identifiers *)

\* The longest list given to _sort_questions.
MaxIds == 3

\* Identifiers of the model: well-formed ones (digits, then at most one
\* lower-case letter), one of them too long for int(), and malformed ones.
SampleIds ==
    { <<"2">>, <<"1", "0">>, <<"1", "a">>, <<"9", "9", "9">>, <<"1", "0", "0", "0">>,
      <<"x">>, <<"Q", "1">>, <<"1", "2", "3", "4", "5">> }

SortInit ==
    /\ \E n \in 0..MaxIds : sortIn \in [1..n -> SampleIds]
    /\ sortOut = [done |-> FALSE]

\* self._sort_questions(questions) returns
sort_call ==
    /\ sortOut = [done |-> FALSE]
    /\ ~SortRaises(sortIn)
    /\ sortOut' = [done |-> TRUE, list |-> sort_questions(sortIn)]
    /\ UNCHANGED <<sortIn, dvars, mvars, cvars, wvars>>

\* self._sort_questions(questions) raises the ValueError of sort_key
sort_call_raises ==
    /\ sortOut = [done |-> FALSE]
    /\ SortRaises(sortIn)
    /\ sortOut' = [done |-> FALSE, raised |-> TRUE]
    /\ UNCHANGED <<sortIn, dvars, mvars, cvars, wvars>>

SortIdle == sortIn = <<>> /\ sortOut = [done |-> FALSE]

SortNext == sort_call \/ sort_call_raises

----------------------------------------------------------------------------
(* PDFMarker and mark_pdf_submission *)

\* The most entries of a correctness dict of the model.
MaxMarks == 2

\* The identifiers of the templates, and those of the correctness dicts:
\* 99 is a key of no template.
TemplateIds == <<<<"1">>, <<"1", "a">>, <<"2">>>>
MarkIds == Range(TemplateIds) \cup {<<"9", "9">>}

\* The page indices a template stores; the source has 0 to 2 pages, so an
\* index can be valid, too large, or negative.
TemplatePages == {-1, 0, 1}
SourcePages == {0, 1, 2}

\* The template entry of the k-th identifier on the given page.
TemplateEntry(k, page) == [page |-> page, x |-> 40 + 5 * k, y |-> 100 * k]

CHECKMARK == "CHECKMARK"
CROSSMARK == "CROSSMARK"
CORRECT_COLOR == <<0, 6, 0>>      \* (0, 0.6, 0) in tenths
INCORRECT_COLOR == <<8, 0, 0>>    \* (0.8, 0, 0) in tenths

\* The exception class each step raises: open_pdf, overlay_marks,
\* add_score_summary and save_marked_pdf all raise ValueError, and
\* mark_pdf_submission raises ValueError for whatever it caught.
RaisedBy(stage) == "ValueError"

\* The exception at the caller: its class, the step that failed, and the
\* failure the step caught, whose text the message carries.
Raised(stage, cause) ==
    [raised |-> TRUE, type |-> RaisedBy(stage), stage |-> stage, cause |-> cause]

\* bool(self.doc): a document is an object with __len__, so an open
\* document of zero pages is false, like None.
DocTruthy == mDoc.open /\ source.pages > 0

\* The correctness dict as a function, and its keys.
MarkKeys == {marks[i].id : i \in DOMAIN marks}
IsCorrect(q) == marks[CHOOSE i \in DOMAIN marks : marks[i].id = q].is_correct

\* self.doc[page_num] for an index that passed "page_num >= len(self.doc)":
\* a negative index counts from the last page.
PageAt(page_num) == IF page_num < 0 THEN page_num % source.pages ELSE page_num

\* page.insert_text(point, text, color=...): the text added to the page; an
\* empty text adds nothing.  q names the question the text is drawn for.
InsertText(q, page, x, y, text, color) ==
    IF text = "" THEN <<>>
    ELSE <<[question |-> q, page |-> page, x |-> x, y |-> y, text |-> text, color |-> color]>>

\* The body of the loop of overlay_marks without the offsets of the mark.
DrawMark_AtAnchor(q, is_correct, info) ==
    LET mark_text == IF is_correct THEN CHECKMARK ELSE CROSSMARK
        mark_color == IF is_correct THEN CORRECT_COLOR ELSE INCORRECT_COLOR
    IN  InsertText(q, PageAt(info.page), info.x, info.y, mark_text, mark_color)

\* The body of the loop of overlay_marks for a mark that is not skipped: the
\* two insert_text calls.
DrawMark(q, is_correct, info) ==
    LET mark_text == IF is_correct THEN CHECKMARK ELSE CROSSMARK
        mark_color == IF is_correct THEN CORRECT_COLOR ELSE INCORRECT_COLOR
        insertion_x == info.x + 250
        insertion_y == info.y - 3
    IN  InsertText(q, PageAt(info.page), insertion_x, insertion_y, mark_text, mark_color)
        \o InsertText(q, PageAt(info.page), insertion_x + 20, insertion_y + 2, "", mark_color)

\* The two tests of the loop of overlay_marks without the first: an
\* identifier is looked up whether or not the mapping holds it.
Skipped_NoKeyTest(q) == q \in DOMAIN template /\ template[q].page >= source.pages

\* The two tests of the loop of overlay_marks that skip a mark: the
\* identifier is no key of the mapping, or its page is past the last page.
Skipped(q) == q \notin DOMAIN template \/ template[q].page >= source.pages

\* The library call of a mark that is not skipped cannot succeed: the
\* mapping has no such key, or the document has no page to index.
MustRaise(q) == q \notin DOMAIN template \/ source.pages = 0

\* The loop of overlay_marks from mark i on, texts being the page texts so
\* far; the library raises at mark failAt if that mark is not skipped.
RECURSIVE OverlayLoop(_, _, _)
OverlayLoop(i, texts, failAt) ==
    IF i > Len(marks) THEN [texts |-> texts, raised |-> FALSE]
    ELSE LET q == marks[i].id
         IN  IF Skipped(q) THEN OverlayLoop(i + 1, texts, failAt)
             ELSE IF failAt = i \/ MustRaise(q)
                  THEN [texts |-> texts, raised |-> TRUE,
                        cause |-> IF q \notin DOMAIN template THEN "KeyError"
                                  ELSE "library"]
             ELSE OverlayLoop(i + 1, texts \o DrawMark(q, marks[i].is_correct, template[q]),
                              failAt)

\* PercentageTenths without the factor 100: the fraction correct / total.
PercentageTenths_Fraction(correct_count, total_questions) ==
    IF total_questions > 0
    THEN LET n == 10 * correct_count
             q == n \div total_questions
             r == n % total_questions
         IN  IF 2 * r > total_questions \/ (2 * r = total_questions /\ q % 2 = 1)
             THEN q + 1 ELSE q
    ELSE 0

\* percentage = correct / total * 100, as the tenths that "{:.1f}" shows.
PercentageTenths(correct_count, total_questions) ==
    IF total_questions > 0
    THEN LET n == 1000 * correct_count
             q == n \div total_questions
             r == n % total_questions
         IN  IF 2 * r > total_questions \/ (2 * r = total_questions /\ q % 2 = 1)
             THEN q + 1 ELSE q
    ELSE 0

\* sum(1 for is_correct in marks.values() if is_correct)
CorrectCount == Cardinality({i \in DOMAIN marks : marks[i].is_correct})

MarkInit ==
    /\ source \in [openable : BOOLEAN, pages : SourcePages]
    /\ \E n \in 0..MaxMarks : \E ids \in [1..n -> MarkIds] : \E flags \in [1..n -> BOOLEAN] :
          /\ \A i, j \in 1..n : i # j => ids[i] # ids[j]
          /\ marks = [i \in 1..n |-> [id |-> ids[i], is_correct |-> flags[i]]]
    /\ \E present \in SUBSET DOMAIN TemplateIds : \E pages \in [present -> TemplatePages] :
          template = [q \in {TemplateIds[k] : k \in present}
                        |-> TemplateEntry(IndexIn(q, TemplateIds), pages[IndexIn(q, TemplateIds)])]
    /\ mpc = "start"
    /\ mDoc = [open |-> FALSE, texts |-> <<>>]
    /\ mOpens = 0
    /\ mCloses = 0
    /\ mSummary = <<>>
    /\ mOutput = [written |-> FALSE]
    /\ mError = NoError

\* marker.open_pdf() and marker.set_question_mapping(question_mapping)
marker_open_pdf ==
    /\ mpc = "start"
    /\ source.openable
    /\ mDoc' = [open |-> TRUE, texts |-> <<>>]
    /\ mOpens' = mOpens + 1
    /\ mpc' = "opened"
    /\ UNCHANGED <<source, marks, template, mCloses, mSummary, mOutput, mError>>
    /\ UNCHANGED <<dvars, svars, cvars, wvars>>

\* marker.open_pdf(): fitz.open raises
marker_open_pdf_raises ==
    /\ mpc = "start"
    /\ ~source.openable
    /\ mpc' = "raising"
    /\ mError' = Raised("open", "fitz.open")
    /\ UNCHANGED <<source, marks, template, mDoc, mOpens, mCloses, mSummary, mOutput>>
    /\ UNCHANGED <<dvars, svars, cvars, wvars>>

\* marker.overlay_marks(marks) returns True
overlay_marks ==
    /\ mpc = "opened"
    /\ LET r == OverlayLoop(1, mDoc.texts, 0)
       IN  /\ ~r.raised
           /\ mDoc' = [open |-> TRUE, texts |-> r.texts]
    /\ mOpens' = mOpens + Reopened(~DocTruthy)
    /\ mpc' = "overlaid"
    /\ UNCHANGED <<source, marks, template, mCloses, mSummary, mOutput, mError>>
    /\ UNCHANGED <<dvars, svars, cvars, wvars>>

\* marker.overlay_marks(marks) raises: a library call of the loop failed
overlay_marks_raises ==
    /\ mpc = "opened"
    /\ \E failAt \in 0..Len(marks) :
          LET r == OverlayLoop(1, mDoc.texts, failAt)
          IN  /\ r.raised
              /\ mDoc' = [open |-> TRUE, texts |-> r.texts]
              /\ mError' = Raised("overlay", r.cause)
    /\ mOpens' = mOpens + Reopened(~DocTruthy)
    /\ mpc' = "raising"
    /\ UNCHANGED <<source, marks, template, mCloses, mSummary, mOutput>>
    /\ UNCHANGED <<dvars, svars, cvars, wvars>>

\* marker.add_score_summary(...) returns True
add_score_summary ==
    /\ mpc = "overlaid"
    /\ source.pages > 0
    /\ mSummary' = [page |-> 0, correct |-> CorrectCount, total |-> Len(marks),
                    percentage |-> PercentageTenths(CorrectCount, Len(marks))]
    /\ mpc' = "summarised"
    /\ UNCHANGED <<source, marks, template, mDoc, mOpens, mCloses, mOutput, mError>>
    /\ UNCHANGED <<dvars, svars, cvars, wvars>>

\* marker.add_score_summary(...) raises: the document has no page 0, or an
\* insert_text call failed
add_score_summary_raises ==
    /\ mpc = "overlaid"
    /\ mOpens' = mOpens + Reopened(~mDoc.open \/ source.pages = 0)
    /\ mError' = Raised("summary", IF source.pages = 0 THEN "IndexError" ELSE "library")
    /\ mpc' = "raising"
    /\ UNCHANGED <<source, marks, template, mDoc, mCloses, mSummary, mOutput>>
    /\ UNCHANGED <<dvars, svars, cvars, wvars>>

\* save_marked_pdf called right after overlay_marks, before the summary.
save_marked_pdf_BeforeSummary ==
    /\ mpc \in {"overlaid", "summarised"}
    /\ DocTruthy
    /\ mOutput' = [written |-> TRUE, complete |-> TRUE,
                   texts |-> mDoc.texts, summary |-> mSummary]
    /\ mpc' = "saved"
    /\ UNCHANGED <<source, marks, template, mDoc, mOpens, mCloses, mSummary, mError>>
    /\ UNCHANGED <<dvars, svars, cvars, wvars>>

\* marker.save_marked_pdf() returns True
save_marked_pdf ==
    /\ mpc = "summarised"
    /\ DocTruthy
    /\ mOutput' = [written |-> TRUE, complete |-> TRUE,
                   texts |-> mDoc.texts, summary |-> mSummary]
    /\ mpc' = "saved"
    /\ UNCHANGED <<source, marks, template, mDoc, mOpens, mCloses, mSummary, mError>>
    /\ UNCHANGED <<dvars, svars, cvars, wvars>>

\* marker.save_marked_pdf() raises: os.makedirs or doc.save failed, and
\* doc.save may have left a part of the file
save_marked_pdf_raises ==
    /\ mpc = "summarised"
    /\ \E partial \in BOOLEAN :
          mOutput' = IF partial THEN [written |-> TRUE, complete |-> FALSE] ELSE mOutput
    /\ mError' = Raised("save", "library")
    /\ mpc' = "raising"
    /\ UNCHANGED <<source, marks, template, mDoc, mOpens, mCloses, mSummary>>
    /\ UNCHANGED <<dvars, svars, cvars, wvars>>

\* return True, or "except Exception: raise ValueError(...)"; then finally:
\* marker.close_pdf(), which closes a document that is true
mark_finally ==
    /\ mpc \in {"saved", "raising"}
    /\ mDoc' = IF DocTruthy THEN [mDoc EXCEPT !.open = FALSE] ELSE mDoc
    /\ mCloses' = IF DocTruthy THEN mCloses + 1 ELSE mCloses
    /\ mpc' = IF mpc = "saved" THEN "returned" ELSE "raised"
    /\ UNCHANGED <<source, marks, template, mOpens, mSummary, mOutput, mError>>
    /\ UNCHANGED <<dvars, svars, cvars, wvars>>

MarkIdle ==
    /\ source = [openable |-> FALSE, pages |-> 0]
    /\ marks = <<>>
    /\ template = <<>>
    /\ mpc = "idle"
    /\ mDoc = [open |-> FALSE, texts |-> <<>>]
    /\ mOpens = 0
    /\ mCloses = 0
    /\ mSummary = <<>>
    /\ mOutput = [written |-> FALSE]
    /\ mError = NoError

MarkNext ==
    \/ marker_open_pdf \/ marker_open_pdf_raises
    \/ overlay_marks \/ overlay_marks_raises
    \/ add_score_summary \/ add_score_summary_raises
    \/ save_marked_pdf \/ save_marked_pdf_raises
    \/ mark_finally

----------------------------------------------------------------------------
(* Concurrent mark_pdf_submission calls on one question mapping *)

\* The calls; each has a marker, a document and an output path of its own,
\* and all are given the same question_mapping dict.
Callers == {1, 2}

\* The identifiers of the calls' correctness dicts: 99 is a key of no template.
ShareIds == {<<"1">>, <<"2">>, <<"9", "9">>}

\* The correctness dict of caller c over the identifiers ids: the values
\* alternate, starting with True for caller 1 and False for caller 2.
CallMarks(c, ids) ==
    [i \in DOMAIN ids |-> [id |-> ids[i], is_correct |-> (c + i) % 2 = 0]]

ShareInit ==
    /\ source \in [openable : {TRUE}, pages : {1, 2}]
    /\ \E present \in SUBSET {1, 2} : \E pages \in [present -> {0, 1}] :
          template = [q \in {TemplateIds[k] : k \in present}
                        |-> TemplateEntry(IndexIn(q, TemplateIds), pages[IndexIn(q, TemplateIds)])]
    /\ \E n1, n2 \in 0..MaxMarks :
          \E ids1 \in [1..n1 -> ShareIds] : \E ids2 \in [1..n2 -> ShareIds] :
             /\ \A i, j \in 1..n1 : i # j => ids1[i] # ids1[j]
             /\ \A i, j \in 1..n2 : i # j => ids2[i] # ids2[j]
             /\ calls = [c \in Callers |->
                           [pc |-> "start", i |-> 1,
                            marks |-> CallMarks(c, IF c = 1 THEN ids1 ELSE ids2),
                            texts |-> <<>>, output |-> <<>>]]
    /\ marks = <<>>
    /\ mpc = "idle"
    /\ mDoc = [open |-> FALSE, texts |-> <<>>]
    /\ mOpens = 0
    /\ mCloses = 0
    /\ mSummary = <<>>
    /\ mOutput = [written |-> FALSE]
    /\ mError = NoError

\* marker.open_pdf() and marker.set_question_mapping(question_mapping) of
\* caller c: the marker refers to the dict it was given.
call_open(c) ==
    /\ calls[c].pc = "start"
    /\ calls' = [calls EXCEPT ![c].pc = "overlay"]
    /\ UNCHANGED <<dvars, svars, mvars, wvars>>

\* One iteration of the loop of overlay_marks that also removes the entry it
\* drew from the question mapping.
call_mark_Consumes(c) ==
    /\ calls[c].pc = "overlay"
    /\ calls[c].i <= Len(calls[c].marks)
    /\ LET m == calls[c].marks[calls[c].i]
       IN  /\ calls' = [calls EXCEPT
                          ![c].i = @ + 1,
                          ![c].texts = IF Skipped(m.id) THEN @
                                       ELSE @ \o DrawMark(m.id, m.is_correct, template[m.id])]
           /\ template' = IF Skipped(m.id) THEN template
                          ELSE [q \in DOMAIN template \ {m.id} |-> template[q]]
    /\ UNCHANGED <<source, marks, mpc, mDoc, mOpens, mCloses, mSummary, mOutput, mError>>
    /\ UNCHANGED <<dvars, svars, wvars>>

\* One iteration of the loop of overlay_marks of caller c: the mapping is
\* read, the mark is drawn on the caller's own document.
call_mark(c) ==
    /\ calls[c].pc = "overlay"
    /\ calls[c].i <= Len(calls[c].marks)
    /\ LET m == calls[c].marks[calls[c].i]
       IN  calls' = [calls EXCEPT
                       ![c].i = @ + 1,
                       ![c].texts = IF Skipped(m.id) THEN @
                                    ELSE @ \o DrawMark(m.id, m.is_correct, template[m.id])]
    /\ UNCHANGED <<dvars, svars, mvars, wvars>>

\* The loop of caller c is over: add_score_summary, save_marked_pdf to the
\* caller's output path, return True and close_pdf.
call_finish(c) ==
    /\ calls[c].pc = "overlay"
    /\ calls[c].i > Len(calls[c].marks)
    /\ LET ms == calls[c].marks
           correct_count == Cardinality({i \in DOMAIN ms : ms[i].is_correct})
       IN  calls' = [calls EXCEPT
                       ![c].pc = "returned",
                       ![c].output =
                           [texts |-> calls[c].texts,
                            summary |-> [page |-> 0, correct |-> correct_count,
                                         total |-> Len(ms),
                                         percentage |-> PercentageTenths(correct_count, Len(ms))]]]
    /\ UNCHANGED <<dvars, svars, mvars, wvars>>

ShareIdle == calls = <<>>

ShareNext == \E c \in Callers : call_open(c) \/ call_mark(c) \/ call_finish(c)

----------------------------------------------------------------------------
(* The persisted template: ExamTemplate.question_mapping, a JSON column *)

\* The most spans of a document whose mapping is persisted.
MaxTemplateSpans == 2

\* The span texts of those documents: plain, zero-padded and sub-part labels.
TemplateTexts ==
    { <<"1", ".", " ", "X", "?">>,          \* 1. X?
      <<"0", "0", "7", ".">>,               \* 007.
      <<"1", "(", "A", ")">>,               \* 1(A)
      <<"2", ".">> }                        \* 2.

TemplateSpans == [type : {0}, text : TemplateTexts]

\* The body of a JSON string: a quote or a backslash is written after a
\* backslash.
RECURSIVE JsonEscape(_)
JsonEscape(s) ==
    IF s = <<>> THEN <<>>
    ELSE (IF s[1] \in {"\"", "\\"} THEN <<"\\", s[1]>> ELSE <<s[1]>>) \o JsonEscape(Tail(s))

\* The characters a JSON string body stands for.
RECURSIVE JsonUnescape(_)
JsonUnescape(t) ==
    IF t = <<>> THEN <<>>
    ELSE IF t[1] = "\\" /\ Len(t) > 1 THEN <<t[2]>> \o JsonUnescape(SubSeq(t, 3, Len(t)))
    ELSE <<t[1]>> \o JsonUnescape(Tail(t))

\* A str as the column holds it, and the str read back from it.
encode_str(s) == <<"\"">> \o JsonEscape(s) \o <<"\"">>
decode_str(t) == JsonUnescape(SubSeq(t, 2, Len(t) - 1))

\* An int as the column holds it: its decimal digits after the sign.
encode_int(n) == IF n < 0 THEN <<"-">> \o IntToStr(0 - n) ELSE IntToStr(n)

\* float.__repr__ of a coordinate: the documents of the model place their
\* spans at whole numbers of points, which are written with one decimal 0.
float_repr(v) == encode_int(v) \o <<".", "0">>

\* The number a JSON number stands for: the digits before the point under
\* the sign; the decimals of the model's coordinates are all 0.
decode_number(t) ==
    LET negative == t # <<>> /\ t[1] = "-"
        body == IF negative THEN Tail(t) ELSE t
        whole == SubSeq(body, 1, SkipDigits(body, 1) - 1)
    IN  IF negative THEN 0 - ParseInt(whole) ELSE ParseInt(whole)

\* json.dumps of a question mapping: one member per key, in the order of the
\* dict, the key as a string and the entry as an object of five members.
json_dumps(mapping) ==
    [i \in DOMAIN mapping.keys |->
        LET info == mapping.val[mapping.keys[i]]
        IN  [key |-> encode_str(mapping.keys[i]),
             page |-> encode_int(info.page),
             x |-> float_repr(info.x),
             y |-> float_repr(info.y),
             text |-> encode_str(info.text),
             question_type |-> info.question_type]]

\* The key of a member read as a number where it is one: "007" becomes "7".
object_key_Numeric(t) ==
    LET s == decode_str(t)
    IN  IF s # <<>> /\ SkipDigits(s, 1) = Len(s) + 1 THEN IntToStr(ParseInt(s)) ELSE s

\* The key of a member read back: object keys are strings.
object_key(t) == decode_str(t)

\* json.loads of the column: the dict of the members in their order, a
\* repeated key keeping its first place and its last value.
json_loads(members) ==
    LET keys == [i \in DOMAIN members |-> object_key(members[i].key)]
    IN  [keys |-> FirstInsertions(keys),
         val |-> [q \in Range(keys) |->
                    LET i == CHOOSE i \in DOMAIN keys :
                                 keys[i] = q /\ \A j \in DOMAIN keys : j > i => keys[j] # q
                    IN  [page |-> decode_number(members[i].page),
                         x |-> decode_number(members[i].x),
                         y |-> decode_number(members[i].y),
                         text |-> decode_str(members[i].text),
                         question_type |-> members[i].question_type]]]

TemplateInit ==
    /\ DetectInitOver(TemplateSpans)
    /\ Len(doc) <= MaxTemplateSpans
    /\ dFile.openable /\ dFile.pages > 0
    /\ tpc = "detect"
    /\ stored = <<>>
    /\ tFirst = [written |-> FALSE]

\* ExamTemplate(question_mapping=...).save() with the mapping
\* detect_questions_in_pdf returned
template_save ==
    /\ tpc = "detect"
    /\ dpc = "returned"
    /\ stored' = json_dumps(dResult.mapping)
    /\ tpc' = "saved"
    /\ UNCHANGED <<tFirst, dvars, svars, mvars, cvars, rvars, pvars, fvars>>

\* The correctness dict of a marking: an entry for every key of the mapping.
MarksOver(keys, flags) == [i \in DOMAIN keys |-> [id |-> keys[i], is_correct |-> flags[i]]]

\* A new PDFMarker on the exam's file.
NewMarker ==
    /\ source' = [openable |-> TRUE, pages |-> dFile.pages]
    /\ mpc' = "start"
    /\ mDoc' = [open |-> FALSE, texts |-> <<>>]
    /\ mOpens' = 0
    /\ mCloses' = 0
    /\ mSummary' = <<>>
    /\ mOutput' = [written |-> FALSE]
    /\ mError' = NoError

\* mark_pdf_submission with the mapping detect_questions_in_pdf returned
mark_from_memory ==
    /\ tpc = "saved"
    /\ \E flags \in [DOMAIN dResult.mapping.keys -> BOOLEAN] :
          marks' = MarksOver(dResult.mapping.keys, flags)
    /\ template' = dResult.mapping.val
    /\ NewMarker
    /\ tpc' = "first"
    /\ UNCHANGED <<stored, tFirst, dvars, svars, cvars, rvars, pvars, fvars>>

\* mark_pdf_submission on the same file and marks with the mapping read
\* back from the column
mark_from_template ==
    /\ tpc = "first"
    /\ mpc = "returned"
    /\ tFirst' = mOutput
    /\ template' = json_loads(stored).val
    /\ NewMarker
    /\ tpc' = "second"
    /\ UNCHANGED <<marks, stored, dvars, svars, cvars, rvars, pvars, fvars>>

TemplateIdle == tpc = "idle" /\ stored = <<>> /\ tFirst = [written |-> FALSE]

TemplateNext ==
    \/ DetectNext
    \/ template_save \/ mark_from_memory \/ mark_from_template
    \/ marker_open_pdf \/ overlay_marks \/ add_score_summary \/ save_marked_pdf
    \/ mark_finally

----------------------------------------------------------------------------
(* fast_mark_exam (training/trainapp/marking_views.py) *)

\* The most requests made for one submission.
MaxRequests == 2

\* The largest total_marks_input of a request.
MaxScore == 2

\* exam.total_marks: the default of ExamPaper.total_marks.
TotalMarks == 100

\* total_marks_input in half marks: 0, 0.5, 1, ... MaxScore.
Scores == 0..(2 * MaxScore)

\* int(score): the whole marks of a score given in half marks.
IntOfScore(score) == score \div 2

\* The exam files of the model: no label, plain labels, a zero-padded label
\* with and without its plain twin, and a sub-part label.
FastDocs ==
    { <<>>,
      <<<<"1", ".", " ", "X", "?">>>>,
      <<<<"1", ".", " ", "X", "?">>, <<"2", ".">>>>,
      <<<<"0", "0", "7", ".">>>>,
      <<<<"0", "0", "7", ".">>, <<"7", ".">>>>,
      <<<<"1", ".", " ", "X", "?">>, <<"1", "a", ")">>>> }

\* int(q) of line 205 returns: the key is a run of digits that int() takes.
KeyIsInt(q) == q # <<>> /\ SkipDigits(q, 1) = Len(q) + 1 /\ IntParses(q)

\* [int(q) for q in question_mapping.keys()]
IntsOf(keys) == [i \in DOMAIN keys |-> ParseInt(keys[i])]

\* sorted() of a list of ints
RECURSIVE sorted_ints(_)
sorted_ints(ns) ==
    IF ns = <<>> THEN <<>>
    ELSE LET front == sorted_ints(SubSeq(ns, 1, Len(ns) - 1))
             x == ns[Len(ns)]
             p == Cardinality({i \in DOMAIN front : front[i] <= x})
         IN  SubSeq(front, 1, p) \o <<x>> \o SubSeq(front, p + 1, Len(front))

\* [str(i) for i in detected_questions]
StrsOf(ns) == [i \in DOMAIN ns |-> IntToStr(ns[i])]

\* The correctness dict of the given keys and values: a key keeps the place
\* of its first insertion and the value of its last.
DictOf(keys, value) ==
    LET order == FirstInsertions(keys)
    IN  [i \in DOMAIN order |-> [id |-> order[i], is_correct |-> value[order[i]]]]

\* Lines 243-246: every detected question False, then the first int(score)
\* of the list True.
total_marks_dict(detected, whole) ==
    LET keys == StrsOf(detected)
    IN  DictOf(keys, [q \in Range(keys) |->
                        \E i \in DOMAIN keys : i <= whole /\ keys[i] = q])

\* Lines 292-311: marks_by_question[str(question_id)] = is_correct for every
\* detected question, checked being the questions whose box is "on".
per_question_dict(detected, checked) ==
    LET keys == StrsOf(detected)
    IN  DictOf(keys, [q \in Range(keys) |-> ParseInt(q) \in checked])

\* correct_questions of lines 289-299: one entry per iteration of the loop.
CorrectQuestions(detected, checked) == SelectSeq(detected, LAMBDA q : q \in checked)

\* exam.file.path: the file of the exam under MEDIA_ROOT/exam_papers.
ExamPath == <<"exam_papers", "exam.pdf">>

\* The PDF of the given span texts as a file on disk.
ExamPdf(texts) == [file |-> [written |-> TRUE, complete |-> TRUE, spans |-> texts], by |-> 0]

\* The output path taken to be the path of the exam's own file.
marked_pdf_path_InPlace(id, second) == ExamPath

\* f"marked_{submission.id}_{timezone.now().strftime('%Y%m%d_%H%M%S')}.pdf"
\* under MEDIA_ROOT/marked_submissions
marked_pdf_path(id, second) == <<"marked_submissions", id, second>>

\* A MarkedExamSubmission row before get_or_create made it.
NoMarked ==
    [exists |-> FALSE, total_correct |-> 0, total_questions |-> 0,
     is_generated |-> FALSE, generation_error |-> <<>>, marked_pdf_file |-> <<>>]

FastInit ==
    /\ \E texts \in FastDocs :
          /\ doc = LayOut([i \in DOMAIN texts |-> [type |-> 0, text |-> texts[i]]])
          /\ \E openable \in BOOLEAN :
                dFile = [openable |-> openable, pages |-> PagesOf(Len(texts))]
          /\ examFile \in BOOLEAN
          /\ disk = IF examFile THEN ExamPath :> ExamPdf(texts) ELSE <<>>
    /\ dpc = "idle"
    /\ dHandle = FALSE
    /\ question_mapping = EmptyDict
    /\ detected_questions = <<>>
    /\ dResult = [returned |-> FALSE]
    /\ dOpens = 0
    /\ dCloses = 0
    /\ dEarlier = <<>>
    /\ dError = NoError
    /\ submission = [score |-> <<>>, notes |-> <<>>, graded |-> FALSE]
    /\ distribution = "assigned"
    /\ marked = NoMarked
    /\ answers = <<>>
    /\ audit = <<>>
    /\ now = 0
    /\ served = 0
    /\ fpc = "idle"
    /\ fMapping = EmptyDict
    /\ fDetected = <<>>
    /\ fNotice = <<>>
    /\ fPath = <<>>
    /\ response = "none"
    /\ marking = [no |-> 0]

\* PDFQuestionDetector(pdf_path) of detect_questions_in_pdf
NewDetector ==
    /\ dpc' = "start"
    /\ dHandle' = FALSE
    /\ question_mapping' = EmptyDict
    /\ detected_questions' = <<>>
    /\ dResult' = [returned |-> FALSE]
    /\ dOpens' = 0
    /\ dCloses' = 0
    /\ dEarlier' = <<>>
    /\ dError' = NoError
    /\ UNCHANGED <<doc, dFile>>

\* Lines 188-204: a request arrives, the exam has a file on disk and
\* detect_questions_in_pdf is called on it
fast_request ==
    /\ fpc = "idle"
    /\ served < MaxRequests
    /\ examFile
    /\ served' = served + 1
    /\ NewDetector
    /\ fMapping' = EmptyDict
    /\ fDetected' = <<>>
    /\ fNotice' = <<>>
    /\ fPath' = <<>>
    /\ fpc' = "detecting"
    /\ UNCHANGED <<submission, distribution, marked, answers, audit, response, marking>>
    /\ UNCHANGED <<examFile, disk, now, tvars, svars, mvars, cvars, rvars, pvars>>

\* Lines 188-203: a request arrives and the exam has no file on disk
fast_request_no_file ==
    /\ fpc = "idle"
    /\ served < MaxRequests
    /\ ~examFile
    /\ served' = served + 1
    /\ fMapping' = EmptyDict
    /\ fDetected' = <<>>
    /\ fNotice' = <<>>
    /\ fPath' = <<>>
    /\ fpc' = "detected"
    /\ UNCHANGED <<submission, distribution, marked, answers, audit, response, marking>>
    /\ UNCHANGED <<examFile, disk, now, tvars, dvars, svars, mvars, cvars, rvars, pvars>>

\* Lines 204-205: detect_questions_in_pdf returned and every key is an int
fast_detected ==
    /\ fpc = "detecting"
    /\ dpc = "returned"
    /\ \A i \in DOMAIN dResult.mapping.keys : KeyIsInt(dResult.mapping.keys[i])
    /\ fMapping' = dResult.mapping
    /\ fDetected' = sorted_ints(IntsOf(dResult.mapping.keys))
    /\ fpc' = "detected"
    /\ UNCHANGED <<fNotice, fPath, served, response, marking>>
    /\ UNCHANGED <<submission, distribution, marked, answers, audit>>
    /\ UNCHANGED <<examFile, disk, now, tvars, dvars, svars, mvars, cvars, rvars, pvars>>

\* Lines 204-207: detect_questions_in_pdf raised, or it returned and int(q)
\* raised ValueError after question_mapping was assigned
fast_detection_error ==
    /\ fpc = "detecting"
    /\ \/ /\ dpc = "raised"
          /\ fMapping' = EmptyDict
          /\ fNotice' = <<"Could not auto-detect questions", dError.stage>>
       \/ /\ dpc = "returned"
          /\ \E i \in DOMAIN dResult.mapping.keys : ~KeyIsInt(dResult.mapping.keys[i])
          /\ fMapping' = dResult.mapping
          /\ fNotice' = <<"Could not auto-detect questions", "int">>
    /\ fDetected' = <<>>
    /\ fpc' = "detected"
    /\ UNCHANGED <<fPath, served, response, marking>>
    /\ UNCHANGED <<submission, distribution, marked, answers, audit>>
    /\ UNCHANGED <<examFile, disk, now, tvars, dvars, svars, mvars, cvars, rvars, pvars>>

\* Lines 378-395: a GET renders the form
fast_render_form ==
    /\ fpc = "detected"
    /\ fpc' = "idle"
    /\ response' = "render fast_mark_exam.html"
    /\ UNCHANGED <<fMapping, fDetected, fNotice, fPath, served, marking>>
    /\ UNCHANGED <<submission, distribution, marked, answers, audit>>
    /\ UNCHANGED <<examFile, disk, now, tvars, dvars, svars, mvars, cvars, rvars, pvars>>

\* Lines 210-211: a POST whose form is not valid; the view returns no
\* response
fast_form_invalid ==
    /\ fpc = "detected"
    /\ fpc' = "idle"
    /\ response' = "no response"
    /\ UNCHANGED <<fMapping, fDetected, fNotice, fPath, served, marking>>
    /\ UNCHANGED <<submission, distribution, marked, answers, audit>>
    /\ UNCHANGED <<examFile, disk, now, tvars, dvars, svars, mvars, cvars, rvars, pvars>>

\* "if exam.file and os.path.exists(exam.file.path) and question_mapping"
Generates == examFile /\ fMapping.keys # <<>>

\* Lines 238-256 and 334-347: the output path of this second, and
\* mark_pdf_submission called with the marks and the question mapping
StartMarking(later, marks_by_question) ==
    /\ now' = now + later
    /\ fPath' = marked_pdf_path("s1", now')
    /\ marks' = marks_by_question
    /\ template' = fMapping.val
    /\ NewMarker
    /\ fpc' = "marking"
    /\ UNCHANGED <<audit, response>>

\* Lines 267-282 and 359-376: the audit entry and the redirect
Finish(action) ==
    /\ audit' = Append(audit, action)
    /\ response' = "redirect view_marked_submission"
    /\ fpc' = "idle"

\* Lines 221-256, and 267-282 when the PDF is not generated: total marks
fast_mark_total ==
    /\ fpc = "detected"
    /\ \E score \in Scores : \E later \in {0, 1} :
          /\ submission' = [score |-> <<score, 2>>, notes |-> <<>>, graded |-> TRUE]
          /\ marking' = [no |-> served, mode |-> "total_marks", score |-> score]
          /\ marked' = [marked EXCEPT
                          !.exists = TRUE,
                          !.total_questions = IF fDetected # <<>> THEN Len(fDetected) ELSE 1,
                          !.total_correct = IntOfScore(score)]
          /\ IF Generates
             THEN StartMarking(later, total_marks_dict(fDetected, IntOfScore(score)))
             ELSE /\ Finish("fast_mark_exam_total")
                  /\ UNCHANGED <<now, fPath, mvars>>
    /\ distribution' = "scored"
    /\ UNCHANGED <<fMapping, fDetected, fNotice, served, answers>>
    /\ UNCHANGED <<examFile, disk, tvars, dvars, svars, cvars, rvars, pvars>>

\* Lines 284-287: per question, and no question was detected
fast_no_questions ==
    /\ fpc = "detected"
    /\ fDetected = <<>>
    /\ fpc' = "idle"
    /\ response' = "No questions detected in exam"
    /\ UNCHANGED <<fMapping, fDetected, fNotice, fPath, served, marking>>
    /\ UNCHANGED <<submission, distribution, marked, answers, audit>>
    /\ UNCHANGED <<examFile, disk, now, tvars, dvars, svars, mvars, cvars, rvars, pvars>>

\* Lines 289-347, and 359-376 when the PDF is not generated: per question
fast_mark_per_question ==
    /\ fpc = "detected"
    /\ fDetected # <<>>
    /\ \E checked \in SUBSET Range(fDetected) : \E equal_weight \in BOOLEAN :
       \E later \in {0, 1} :
          LET correct_questions == CorrectQuestions(fDetected, checked)
              total_questions == Len(fDetected)
          IN  /\ answers' = [q \in DOMAIN answers \cup Range(fDetected) |->
                                IF q \in Range(fDetected) THEN q \in checked ELSE answers[q]]
              /\ submission' =
                    [score |-> IF equal_weight
                               THEN <<Len(correct_questions) * TotalMarks, total_questions>>
                               ELSE <<Len(correct_questions), 1>>,
                     notes |-> <<>>, graded |-> TRUE]
              /\ marking' = [no |-> served, mode |-> "per_question", checked |-> checked]
              /\ marked' = [marked EXCEPT
                              !.exists = TRUE,
                              !.total_correct = Len(correct_questions),
                              !.total_questions = total_questions]
              /\ IF Generates
                 THEN StartMarking(later, per_question_dict(fDetected, checked))
                 ELSE /\ Finish("fast_mark_exam_per_question")
                      /\ UNCHANGED <<now, fPath, mvars>>
    /\ distribution' = "scored"
    /\ UNCHANGED <<fMapping, fDetected, fNotice, served>>
    /\ UNCHANGED <<examFile, disk, tvars, dvars, svars, cvars, rvars, pvars>>

\* The audit action of the mode of the request.
AuditAction ==
    IF marking.mode = "total_marks" THEN "fast_mark_exam_total"
    ELSE "fast_mark_exam_per_question"

\* Lines 258-261 and 349-352, then the audit entry: mark_pdf_submission
\* returned, having saved the file at the output path
fast_generated ==
    /\ fpc = "marking"
    /\ mpc = "returned"
    /\ disk' = [p \in DOMAIN disk \cup {fPath} |->
                  IF p = fPath THEN [file |-> mOutput, by |-> served] ELSE disk[p]]
    /\ marked' = [marked EXCEPT
                    !.marked_pdf_file = fPath,
                    !.is_generated = TRUE,
                    !.generation_error = <<>>]
    /\ Finish(AuditAction)
    /\ UNCHANGED <<fMapping, fDetected, fNotice, fPath, served, marking>>
    /\ UNCHANGED <<submission, distribution, answers>>
    /\ UNCHANGED <<examFile, now, tvars, dvars, svars, mvars, cvars, rvars, pvars>>

\* fast_generation_failed with an except clause that records the message
\* and leaves is_generated as it was.
fast_generation_failed_KeepsFlag ==
    /\ fpc = "marking"
    /\ mpc = "raised"
    /\ disk' = IF mOutput.written
               THEN [p \in DOMAIN disk \cup {fPath} |->
                       IF p = fPath THEN [file |-> mOutput, by |-> served] ELSE disk[p]]
               ELSE disk
    /\ marked' = [marked EXCEPT
                    !.generation_error = <<"Error marking PDF", mError.stage, mError.cause>>]
    /\ Finish(AuditAction)
    /\ UNCHANGED <<fMapping, fDetected, fNotice, fPath, served, marking>>
    /\ UNCHANGED <<submission, distribution, answers>>
    /\ UNCHANGED <<examFile, now, tvars, dvars, svars, mvars, cvars, rvars, pvars>>

\* Lines 262-265 and 354-357, then the audit entry: mark_pdf_submission
\* raised; doc.save may have left a part of the file at the output path
fast_generation_failed ==
    /\ fpc = "marking"
    /\ mpc = "raised"
    /\ disk' = IF mOutput.written
               THEN [p \in DOMAIN disk \cup {fPath} |->
                       IF p = fPath THEN [file |-> mOutput, by |-> served] ELSE disk[p]]
               ELSE disk
    /\ marked' = [marked EXCEPT
                    !.is_generated = FALSE,
                    !.generation_error = <<"Error marking PDF", mError.stage, mError.cause>>]
    /\ Finish(AuditAction)
    /\ UNCHANGED <<fMapping, fDetected, fNotice, fPath, served, marking>>
    /\ UNCHANGED <<submission, distribution, answers>>
    /\ UNCHANGED <<examFile, now, tvars, dvars, svars, mvars, cvars, rvars, pvars>>

FastIdle ==
    /\ examFile = FALSE
    /\ submission = [score |-> <<>>, notes |-> <<>>, graded |-> FALSE]
    /\ distribution = "assigned"
    /\ marked = NoMarked
    /\ answers = <<>>
    /\ audit = <<>>
    /\ disk = <<>>
    /\ now = 0
    /\ served = 0
    /\ fpc = "off"
    /\ fMapping = EmptyDict
    /\ fDetected = <<>>
    /\ fNotice = <<>>
    /\ fPath = <<>>
    /\ response = "none"
    /\ marking = [no |-> 0]

FastNext ==
    \/ fast_request \/ fast_request_no_file
    \/ DetectNext \/ DetectFails
    \/ fast_detected \/ fast_detection_error
    \/ fast_render_form \/ fast_form_invalid \/ fast_mark_total \/ fast_no_questions \/ fast_mark_per_question
    \/ marker_open_pdf
    \/ overlay_marks \/ overlay_marks_raises
    \/ add_score_summary \/ add_score_summary_raises
    \/ save_marked_pdf \/ save_marked_pdf_raises
    \/ mark_finally
    \/ fast_generated \/ fast_generation_failed

----------------------------------------------------------------------------
(* fast_mark_exam requests served at the same time *)

\* The requests in flight, and the submissions they are for.
Requests == {1, 2}
SubmissionIds == {"s1", "s2"}

\* The seconds the clock can advance while the requests are served.
MaxSeconds == 1

RaceInit ==
    /\ reqs \in [Requests -> [pc : {"arrived"}, submission : SubmissionIds, path : {<<>>}]]
    /\ rowLocks \in BOOLEAN

\* Request r holds the lock of its Submission row: it has saved the row and
\* its transaction is open.
HoldsRow(r) == reqs[r].pc \in {"saved", "named", "written"}

\* Lines 223-234 and 319-330: the rows are saved inside the transaction of
\* the view; where the database locks rows, the save waits for the
\* transaction of another request that has saved the same row
race_save(r) ==
    /\ reqs[r].pc = "arrived"
    /\ rowLocks => \A o \in Requests \ {r} :
                      HoldsRow(o) => reqs[o].submission # reqs[r].submission
    /\ reqs' = [reqs EXCEPT ![r].pc = "saved"]
    /\ UNCHANGED <<rowLocks, disk, now, fRest, tvars, dvars, svars, mvars, cvars, pvars>>

\* Lines 238-241 and 334-337: the output path of the request
race_name(r) ==
    /\ reqs[r].pc = "saved"
    /\ reqs' = [reqs EXCEPT ![r].pc = "named", ![r].path = marked_pdf_path(reqs[r].submission, now)]
    /\ UNCHANGED <<rowLocks, disk, now, fRest, tvars, dvars, svars, mvars, cvars, pvars>>

\* Lines 248-256 and 339-347: mark_pdf_submission saves the marked PDF at
\* the output path
race_write(r) ==
    /\ reqs[r].pc = "named"
    /\ disk' = [p \in DOMAIN disk \cup {reqs[r].path} |->
                  IF p = reqs[r].path
                  THEN [by |-> (IF p \in DOMAIN disk THEN disk[p].by ELSE {}) \cup {r}]
                  ELSE disk[p]]
    /\ reqs' = [reqs EXCEPT ![r].pc = "written"]
    /\ UNCHANGED <<rowLocks, now, fRest, tvars, dvars, svars, mvars, cvars, pvars>>

\* Lines 258-282 and 349-376: the row names the file, the view returns and
\* its transaction commits
race_commit(r) ==
    /\ reqs[r].pc = "written"
    /\ reqs' = [reqs EXCEPT ![r].pc = "done"]
    /\ UNCHANGED <<rowLocks, disk, now, fRest, tvars, dvars, svars, mvars, cvars, pvars>>

\* A second passes.
tick ==
    /\ now < MaxSeconds
    /\ now' = now + 1
    /\ UNCHANGED <<reqs, rowLocks, disk, fRest, tvars, dvars, svars, mvars, cvars, pvars>>

RaceIdle == reqs = <<>> /\ rowLocks = FALSE

RaceNext ==
    \/ \E r \in Requests : race_save(r) \/ race_name(r) \/ race_write(r) \/ race_commit(r)
    \/ tick

----------------------------------------------------------------------------
(* mark_exam_paper (training/trainapp/marking_views.py) *)

\* The score fields of the POSTs of the model, as typed.
ScoreStrings ==
    { <<>>,                                  \* no score
      <<" ", "7", " ">>,                     \* 7 between spaces
      <<"0">>,
      <<"-", "0">>,
      <<"1", "0", "0">>,
      <<"1", "0", "0", ".", "0", "0">>,
      <<"9", "9", ".", "9", "9", "5">>,
      <<"1", "0", "0", ".", "5">>,
      <<"1", "0", "1">>,
      <<"-", "1">>,
      <<"-", "0", ".", "5">>,
      <<"a", "b", "c">>,
      <<"7", "a">>,
      <<"N", "a", "N">>,
      <<"I", "n", "f", "i", "n", "i", "t", "y">> }

\* The notes fields of the POSTs of the model.
NoteStrings == {<<>>, <<"o", "k">>}

\* str.lower()
LowerOf(s) == [i \in DOMAIN s |-> ToLower(s[i])]

\* 10 ** k
RECURSIVE Pow10(_)
Pow10(k) == IF k = 0 THEN 1 ELSE 10 * Pow10(k - 1)

\* Decimal(s) for a stripped string that is not empty: a sign, then digits
\* with at most one point, or one of the words for a special value; for any
\* other string the constructor raises decimal.InvalidOperation.
DecimalOf(s) ==
    LET signed == s[1] \in {"-", "+"}
        body == IF signed THEN Tail(s) ELSE s
        p == SkipDigits(body, 1)
        point == CharAt(body, p) = "."
        q == IF point THEN SkipDigits(body, p + 1) ELSE p
        whole == SubSeq(body, 1, p - 1)
        decimals == IF point THEN SubSeq(body, p + 1, q - 1) ELSE <<>>
    IN  IF LowerOf(body) \in {<<"n", "a", "n">>, <<"s", "n", "a", "n">>}
        THEN [ok |-> TRUE, kind |-> "nan"]
        ELSE IF LowerOf(body) \in {<<"i", "n", "f">>, <<"i", "n", "f", "i", "n", "i", "t", "y">>}
        THEN [ok |-> TRUE, kind |-> "infinity", negative |-> s[1] = "-"]
        ELSE IF q = Len(body) + 1 /\ whole \o decimals # <<>>
        THEN [ok |-> TRUE, kind |-> "finite", negative |-> s[1] = "-",
              coefficient |-> ParseInt(whole \o decimals), scale |-> Len(decimals)]
        ELSE [ok |-> FALSE]

\* "score < 0"
IsNegative(d) ==
    d.negative /\ (IF d.kind = "infinity" THEN TRUE ELSE d.coefficient > 0)

\* "score > exam.total_marks" comparing the whole marks of the score only.
Exceeds_WholeMarks(d) ==
    /\ ~d.negative
    /\ IF d.kind = "infinity" THEN TRUE
       ELSE d.coefficient \div Pow10(d.scale) > TotalMarks

\* "score > exam.total_marks"
Exceeds(d) ==
    /\ ~d.negative
    /\ IF d.kind = "infinity" THEN TRUE
       ELSE d.coefficient > TotalMarks * Pow10(d.scale)

\* The score as the column DecimalField(max_digits=6, decimal_places=2)
\* holds it: hundredths, rounded half to even.
Hundredths(d) ==
    IF d.scale <= 2 THEN d.coefficient * Pow10(2 - d.scale)
    ELSE LET unit == Pow10(d.scale - 2)
             h == d.coefficient \div unit
             r == d.coefficient % unit
         IN  IF 2 * r > unit \/ (2 * r = unit /\ h % 2 = 1) THEN h + 1 ELSE h

\* Lines 47-55 raise: Decimal() takes the string for no number, or the
\* comparison of a NaN signals; both raise decimal.InvalidOperation, an
\* ArithmeticError that "except ValueError" does not catch.
ScoreRaises(score_str) ==
    /\ score_str # <<>>
    /\ IF DecimalOf(score_str).ok THEN DecimalOf(score_str).kind = "nan" ELSE TRUE

\* Lines 49-55: the score is negative or above exam.total_marks.
ScoreRefused(score_str) ==
    /\ score_str # <<>>
    /\ ~ScoreRaises(score_str)
    /\ IF IsNegative(DecimalOf(score_str)) THEN TRUE ELSE Exceeds(DecimalOf(score_str))

PaperInit == posted = [method |-> "none"]

\* Lines 42-79: a POST whose score is empty or within the marks of the exam
paper_marked ==
    /\ fpc = "off"
    /\ served < MaxRequests
    /\ \E typed \in ScoreStrings : \E notes \in NoteStrings :
          LET score_str == Strip(typed)
          IN  /\ ~ScoreRaises(score_str)
              /\ ~ScoreRefused(score_str)
              /\ posted' = [method |-> "POST", score |-> typed, notes |-> notes]
              /\ submission' =
                    [score |-> IF score_str = <<>> THEN <<>>
                               ELSE <<Hundredths(DecimalOf(score_str)), 100>>,
                     notes |-> Strip(notes), graded |-> TRUE]
    /\ distribution' = "scored"
    /\ audit' = Append(audit, "mark_exam")
    /\ response' = "redirect submission_list"
    /\ served' = served + 1
    /\ UNCHANGED <<examFile, marked, answers, disk, now, fpc, fMapping, fDetected,
                   fNotice, fPath, marking>>
    /\ UNCHANGED <<tvars, rvars, dvars, svars, mvars, cvars>>

\* Lines 42-55: a POST whose score is negative or above the marks of the
\* exam is answered with an error message
paper_refused ==
    /\ fpc = "off"
    /\ served < MaxRequests
    /\ \E typed \in ScoreStrings : \E notes \in NoteStrings :
          /\ ScoreRefused(Strip(typed))
          /\ posted' = [method |-> "POST", score |-> typed, notes |-> notes]
          /\ response' = IF IsNegative(DecimalOf(Strip(typed)))
                         THEN "Score cannot be negative" ELSE "Score cannot exceed total_marks"
    /\ served' = served + 1
    /\ UNCHANGED <<examFile, submission, distribution, marked, answers, audit, disk, now,
                   fpc, fMapping, fDetected, fNotice, fPath, marking>>
    /\ UNCHANGED <<tvars, rvars, dvars, svars, mvars, cvars>>

\* Lines 42-55: a POST whose score is no number; the exception leaves the
\* view
paper_raises ==
    /\ fpc = "off"
    /\ served < MaxRequests
    /\ \E typed \in ScoreStrings : \E notes \in NoteStrings :
          /\ ScoreRaises(Strip(typed))
          /\ posted' = [method |-> "POST", score |-> typed, notes |-> notes]
    /\ response' = "decimal.InvalidOperation"
    /\ served' = served + 1
    /\ UNCHANGED <<examFile, submission, distribution, marked, answers, audit, disk, now,
                   fpc, fMapping, fDetected, fNotice, fPath, marking>>
    /\ UNCHANGED <<tvars, rvars, dvars, svars, mvars, cvars>>

\* Lines 85-92: a GET renders the page
paper_render ==
    /\ fpc = "off"
    /\ served < MaxRequests
    /\ posted' = [method |-> "GET"]
    /\ response' = "render mark_exam_paper.html"
    /\ served' = served + 1
    /\ UNCHANGED <<examFile, submission, distribution, marked, answers, audit, disk, now,
                   fpc, fMapping, fDetected, fNotice, fPath, marking>>
    /\ UNCHANGED <<tvars, rvars, dvars, svars, mvars, cvars>>

PaperIdle == posted = <<>>

PaperNext == paper_marked \/ paper_refused \/ paper_raises \/ paper_render

WebIdle == TemplateIdle /\ FastIdle /\ RaceIdle /\ PaperIdle

DetectIdle ==
    /\ doc = <<>>
    /\ dpc = "idle"
    /\ dHandle = FALSE
    /\ question_mapping = EmptyDict
    /\ detected_questions = <<>>
    /\ dResult = [returned |-> FALSE]
    /\ dFile = [openable |-> FALSE, pages |-> 0]
    /\ dOpens = 0
    /\ dCloses = 0
    /\ dEarlier = <<>>
    /\ dError = NoError

----------------------------------------------------------------------------
(* Specifications *)

\* detect_questions_in_pdf over the documents of the model, in the runs
\* where neither the file nor the library fails
Init == DetectInit /\ SortIdle /\ MarkIdle /\ ShareIdle /\ WebIdle
Next == DetectNext
Spec == Init /\ [][Next]_vars

\* the detector through open failures, extraction failures, unparsable
\* numbers and repeated detect_questions calls
RunInit == DetectInitOver(RunSpans) /\ SortIdle /\ MarkIdle /\ ShareIdle /\ WebIdle
RunNext == DetectNext \/ DetectFails \/ detect_again
RunSpec == RunInit /\ [][RunNext]_vars

\* _sort_questions over lists of well-formed and malformed identifiers
SortSpecInit == DetectIdle /\ SortInit /\ MarkIdle /\ ShareIdle /\ WebIdle
SortSpec == SortSpecInit /\ [][SortNext]_vars

\* mark_pdf_submission over the sources, templates and correctness dicts
MarkSpecInit == DetectIdle /\ SortIdle /\ MarkInit /\ ShareIdle /\ WebIdle
MarkSpec == MarkSpecInit /\ [][MarkNext]_vars

\* two mark_pdf_submission calls interleaved on one question mapping, in the
\* runs where neither the file nor the library fails
ShareSpecInit == DetectIdle /\ SortIdle /\ ShareInit /\ WebIdle
ShareSpec == ShareSpecInit /\ [][ShareNext]_vars

\* a detected mapping persisted as an ExamTemplate, read back, and the exam
\* marked with the one and with the other, in the runs where neither the
\* file nor the library fails
TemplateSpecInit == TemplateInit /\ SortIdle /\ MarkIdle /\ ShareIdle /\ FastIdle /\ RaceIdle /\ PaperIdle
TemplateSpec == TemplateSpecInit /\ [][TemplateNext]_vars

\* requests to fast_mark_exam for one submission, one after the other, with
\* the failures of detection and of marking
FastSpecInit == FastInit /\ SortIdle /\ MarkIdle /\ ShareIdle /\ TemplateIdle /\ RaceIdle /\ PaperIdle
FastSpec == FastSpecInit /\ [][FastNext]_vars

\* two fast_mark_exam requests in flight at once, in the runs where
\* nothing fails
RaceSpecInit ==
    /\ DetectIdle /\ SortIdle /\ MarkIdle /\ ShareIdle
    /\ TemplateIdle /\ FastIdle /\ RaceInit /\ PaperIdle
RaceSpec == RaceSpecInit /\ [][RaceNext]_vars

\* requests to mark_exam_paper for one submission, one after the other
PaperSpecInit ==
    /\ DetectIdle /\ SortIdle /\ MarkIdle /\ ShareIdle
    /\ TemplateIdle /\ FastIdle /\ RaceIdle /\ PaperInit
PaperSpec == PaperSpecInit /\ [][PaperNext]_vars

----------------------------------------------------------------------------
(* Properties of detection *)

\* detect_questions has just returned: detector.question_mapping and
\* detector.detected_questions are the run's result.
Detected == dpc = "detected"

\* The text blocks the run scanned.
Blocks == extract_text_with_coordinates(doc)

\* The patterns that match a text, and the identifiers the text yields.
MatchingPatterns(text) == {k \in DOMAIN QUESTION_PATTERNS : ReMatch(k, text).matched}
Yielded(text) ==
    {QuestionId(QUESTION_PATTERNS[k], ReMatch(k, text)) :
        k \in {m \in DOMAIN QUESTION_PATTERNS :
                  LET match == ReMatch(m, text)
                  IN  match.matched /\ ~ParseFails(QUESTION_PATTERNS[m], match)}}

\* The identifiers each of the blocks yields.
YieldedBy(blocks) == [i \in DOMAIN blocks |-> Yielded(blocks[i].text)]

\* The index of the lowest-indexed block that yields the identifier, ys
\* being the identifiers each block yields.
FirstIndex(q, ys) ==
    CHOOSE i \in DOMAIN ys : q \in ys[i] /\ \A j \in 1..(i - 1) : q \notin ys[j]

\* The entry is anchored at the block.
AnchoredAt(info, block) ==
    info.page = block.page /\ info.x = block.x0 /\ info.y = block.y0

\* The entries of the mapping anchored at the block.
EntriesAt(block) ==
    {q \in DOMAIN question_mapping.val : AnchoredAt(question_mapping.val[q], block)}

\* The numeric part and the sub-part letter of an identifier; natural order.
NumberOf(q) == ParseInt(SelectSeq(q, IsDigit))
LetterOf(q) == SelectSeq(q, IsLetter)
NaturalLeq(p, q) ==
    \/ NumberOf(p) < NumberOf(q)
    \/ NumberOf(p) = NumberOf(q) /\ ~StrLess(LetterOf(q), LetterOf(p))
NaturallyOrdered(qs) == \A i, j \in DOMAIN qs : i < j => NaturalLeq(qs[i], qs[j])

\* C1: first occurrence wins.  After detect_questions every identifier a
\* block yields is a key of the mapping, and its entry holds the position
\* and text of the lowest-indexed block that yields it; the run completes
\* whatever repeats the document holds, with one listed identifier per key.
C1_FirstOccurrenceWins ==
    Detected =>
        LET blocks == Blocks
            ys == YieldedBy(blocks)
        IN  /\ \A i \in DOMAIN blocks : \A q \in ys[i] :
                  /\ q \in DOMAIN question_mapping.val
                  /\ AnchoredAt(question_mapping.val[q], blocks[FirstIndex(q, ys)])
                  /\ question_mapping.val[q].text = blocks[FirstIndex(q, ys)].text
            /\ Len(detected_questions) = Cardinality(DOMAIN question_mapping.val)

\* A run over a document where a label on page 1 repeats an identifier of
\* page 0 has returned.
C1_Witness ==
    /\ dpc = "returned"
    /\ \E i, j \in DOMAIN Blocks :
          /\ Blocks[i].page = 0 /\ Blocks[j].page = 1
          /\ Yielded(Blocks[i].text) \cap Yielded(Blocks[j].text) # {}

\* C2: pattern priority.  At most one pattern matches a block and at most
\* one entry of the mapping is anchored at it; the entry anchored at a block
\* reading 1(a) is the sub-part identifier 1a, never the identifier 1.
C2_PatternPriority ==
    Detected =>
        LET blocks == Blocks
        IN  \A i \in DOMAIN blocks :
                /\ Cardinality(MatchingPatterns(blocks[i].text)) <= 1
                /\ Cardinality(EntriesAt(blocks[i])) <= 1
                /\ blocks[i].text = <<"1", "(", "a", ")">> =>
                      /\ <<"1", "a">> \in DOMAIN question_mapping.val
                      /\ EntriesAt(blocks[i]) \subseteq {<<"1", "a">>}

\* A block reading 1(a) was scanned and the entry 1a is anchored at it.
C2_Witness ==
    /\ Detected
    /\ \E i \in DOMAIN Blocks :
          /\ Blocks[i].text = <<"1", "(", "a", ")">>
          /\ EntriesAt(Blocks[i]) = {<<"1", "a">>}

\* C3: the identifier of a simple match is the decimal string of the integer
\* value of its numeric group, so no key of a simple entry has leading zeros.
C3_SimpleIdIsDecimal ==
    Detected =>
        \A q \in DOMAIN question_mapping.val :
            question_mapping.val[q].question_type = "simple" => q = IntToStr(ParseInt(q))

\* C4: the identifier of a sub-part match is the decimal string of the
\* integer value of the numeric group followed by the lower-cased letter, and
\* its kind is subpart; 1(A), 1a) and 01 (a) all yield 1a.
C4_SubpartId ==
    Detected =>
        /\ \A q \in DOMAIN question_mapping.val :
              question_mapping.val[q].question_type = "subpart" =>
                  /\ Len(q) >= 2
                  /\ IsLower(q[Len(q)])
                  /\ SubSeq(q, 1, Len(q) - 1) = IntToStr(NumberOf(q))
        /\ \A i \in DOMAIN doc :
              doc[i].text \in { <<"1", "(", "A", ")">>, <<"1", "a", ")">>,
                                <<"0", "1", " ", "(", "a", ")">> } =>
                  /\ Yielded(doc[i].text) = {<<"1", "a">>}
                  /\ <<"1", "a">> \in DOMAIN question_mapping.val
                  /\ question_mapping.val[<<"1", "a">>].question_type = "subpart"

\* The entry 1a was recorded from a block reading 1(A) or 01 (a).
C4_Witness ==
    /\ Detected
    /\ <<"1", "a">> \in DOMAIN question_mapping.val
    /\ question_mapping.val[<<"1", "a">>].text \in
          { <<"1", "(", "A", ")">>, <<"0", "1", " ", "(", "a", ")">> }

\* C5: iterating the mapping detect_questions_in_pdf returns yields the
\* identifiers in natural order, whatever the order of the labels in the
\* document, and the iteration holds every key once.
C5_MappingNaturalOrder ==
    dResult.returned =>
        /\ NaturallyOrdered(dResult.mapping.keys)
        /\ Range(dResult.mapping.keys) = DOMAIN dResult.mapping.val
        /\ Len(dResult.mapping.keys) = Cardinality(DOMAIN dResult.mapping.val)

\* The labels 10. and 2. appear in that order and the mapping returned
\* iterates 2 before 10.
C5_Witness ==
    /\ dResult.returned
    /\ Len(Blocks) >= 2
    /\ Blocks[1].text = <<"1", "0", ".">>
    /\ Blocks[2].text = <<"2", ".">>
    /\ dResult.mapping.keys[1] = <<"2">>

\* C6: after detect_questions the list detected_questions is in natural
\* order.
C6_DetectedQuestionsNaturalOrder ==
    Detected => NaturallyOrdered(detected_questions)

\* An identifier is well-formed: digits, then at most one lower-case letter.
WellFormed(q) ==
    /\ Len(q) >= 1
    /\ \A i \in 1..(Len(q) - 1) : IsDigit(q[i])
    /\ IsDigit(q[Len(q)]) \/ (IsLower(q[Len(q)]) /\ Len(q) >= 2)

\* C7: in the list _sort_questions returns, no malformed identifier comes
\* before a well-formed one, whatever the numeric values.
C7_MalformedSortLast ==
    sortOut.done =>
        \A i, j \in DOMAIN sortOut.list :
            i < j => WellFormed(sortOut.list[i]) \/ ~WellFormed(sortOut.list[j])

\* C8: the count returned equals the number of keys of the mapping returned,
\* and the keys are exactly the identifiers the text blocks yield.
C8_CountAndKeys ==
    dResult.returned =>
        /\ dResult.count = Cardinality(DOMAIN dResult.mapping.val)
        /\ dResult.count = Len(dResult.mapping.keys)
        /\ LET blocks == Blocks
           IN  DOMAIN dResult.mapping.val =
                   UNION {Yielded(blocks[i].text) : i \in DOMAIN blocks}

\* A run over three labelled blocks, one of them a repeat, returned count 2.
C8_Witness ==
    /\ dResult.returned
    /\ Len(Blocks) = 3
    /\ \A i \in DOMAIN Blocks : Yielded(Blocks[i].text) # {}
    /\ dResult.count = 2

----------------------------------------------------------------------------
(* Properties of marking *)

\* The identifiers of the correctness dict that are keys of the template,
\* and those that are not.
InBoth == MarkKeys \cap DOMAIN template
Missing == MarkKeys \ DOMAIN template

\* The page stored for the identifier is a page of the source.
ValidPage(q) == template[q].page >= 0 /\ template[q].page < source.pages

\* The glyph the identifier is to get.
ExpectedGlyph(q) ==
    [question |-> q, page |-> template[q].page,
     x |-> template[q].x + 250, y |-> template[q].y - 3,
     text |-> IF IsCorrect(q) THEN CHECKMARK ELSE CROSSMARK,
     color |-> IF IsCorrect(q) THEN CORRECT_COLOR ELSE INCORRECT_COLOR]

\* The texts hold exactly one glyph for the identifier, the expected one.
OneGlyph(texts, q) ==
    /\ \E i \in DOMAIN texts : texts[i] = ExpectedGlyph(q)
    /\ Cardinality({i \in DOMAIN texts : texts[i].question = q}) = 1

\* C9: when overlay_marks has returned, every glyph on the pages is for an
\* identifier of both the correctness dict and the template, and every such
\* identifier with a valid page has exactly one glyph: the check mark in the
\* correct colour if its value is true, the cross in the incorrect colour if
\* false, on the page stored for it at (x + 250, y - 3).
C9_GlyphsOfOverlay ==
    mpc = "overlaid" =>
        /\ \A i \in DOMAIN mDoc.texts : mDoc.texts[i].question \in InBoth
        /\ \A q \in InBoth : ValidPage(q) => OneGlyph(mDoc.texts, q)
        /\ CHECKMARK # CROSSMARK /\ CORRECT_COLOR # INCORRECT_COLOR

\* overlay_marks returned after drawing a check mark and a cross.
C9_Witness ==
    /\ mpc = "overlaid"
    /\ \E i, j \in DOMAIN mDoc.texts :
          mDoc.texts[i].text = CHECKMARK /\ mDoc.texts[j].text = CROSSMARK

\* C10: graceful skip.  When the correctness dict holds an identifier that
\* is no key of the template, no failure of the call is a failed lookup of
\* it and overlay_marks can return on a source with pages; no glyph is drawn
\* for it, the other identifiers with a valid page have their glyph once
\* overlay_marks returned, and the file saved by a call that returned holds
\* these glyphs.
C10_GracefulSkip ==
    Missing # {} =>
        /\ mError.raised => mError.cause # "KeyError"
        /\ (mpc = "opened" /\ source.pages > 0) => ENABLED overlay_marks
        /\ \A i \in DOMAIN mDoc.texts : mDoc.texts[i].question \notin Missing
        /\ mpc \in {"overlaid", "summarised", "saved", "returned"} =>
              \A q \in InBoth : ValidPage(q) => OneGlyph(mDoc.texts, q)
        /\ mpc = "returned" =>
              /\ mOutput.written /\ mOutput.complete
              /\ mOutput.texts = mDoc.texts

\* A call whose correctness dict holds 99 and an identifier of the template
\* returned, and the file saved holds a glyph.
C10_Witness ==
    /\ mpc = "returned"
    /\ <<"9", "9">> \in Missing
    /\ mOutput.written /\ mOutput.complete
    /\ Len(mOutput.texts) >= 1

\* The identifiers of both dicts whose stored page is no page of the source.
Stale == {q \in InBoth : ~ValidPage(q)}

\* C11: stale template.  When overlay_marks has returned, no glyph is drawn
\* for an identifier whose stored page is not a valid page index of the
\* source (too large, or negative), and every identifier of both dicts with
\* a valid page has its glyph.
C11_StaleMarkSkipped ==
    mpc \in {"overlaid", "summarised", "saved", "returned"} =>
        /\ \A i \in DOMAIN mDoc.texts : mDoc.texts[i].question \notin Stale
        /\ \A q \in InBoth : ValidPage(q) => OneGlyph(mDoc.texts, q)

C13_OneHandleClosed ==
    mpc \in {"returned", "raised"} =>
        /\ mOpens <= 1
        /\ mCloses = mOpens
        /\ ~mDoc.open

\* C15: the summary block shows correct/total, total being the size of the
\* correctness dict and correct the number of its true values, and the
\* percentage correct / total * 100 to the nearest tenth; for an empty dict
\* the percentage is 0, add_score_summary can return on a source with pages
\* and no failure of the summary is a division by zero.
C15_SummaryScore ==
    /\ mSummary # <<>> =>
          /\ mSummary.total = Len(marks)
          /\ mSummary.correct = Cardinality({q \in MarkKeys : IsCorrect(q)})
          /\ mSummary.correct <= mSummary.total
          /\ mSummary.total = 0 => mSummary.percentage = 0
          /\ mSummary.total > 0 =>
                LET exact == 1000 * mSummary.correct
                    shown == mSummary.percentage * mSummary.total
                IN  /\ 2 * (shown - exact) <= mSummary.total
                    /\ 2 * (exact - shown) <= mSummary.total
    /\ (mpc = "overlaid" /\ source.pages > 0) => ENABLED add_score_summary
    /\ (mError.raised /\ mError.stage = "summary") =>
          mError.cause \in {"IndexError", "library"}

\* The summary of an empty correctness dict was inserted: 0/0 and 0 percent.
C15_Witness ==
    /\ mpc \in {"summarised", "saved", "returned"}
    /\ marks = <<>>
    /\ mSummary = [page |-> 0, correct |-> 0, total |-> 0, percentage |-> 0]

\* C16: a call that raised because the source could not be opened raised a
\* DocumentOpenError, and a call that raised because a glyph, the summary
\* or the save failed raised an AnnotationError that carries the cause.
C16_ErrorClasses ==
    mpc = "raised" =>
        /\ mError.stage = "open" => mError.type = "DocumentOpenError"
        /\ mError.stage \in {"overlay", "summary", "save"} =>
              /\ mError.type = "AnnotationError"
              /\ mError.cause \in {"KeyError", "IndexError", "library"}

----------------------------------------------------------------------------
(* Properties of the detector's runs *)

\* C14: detect_questions_in_pdf releases the handle on every exit path.
\* When the call has returned or raised, the detector holds no open
\* document, at most one document was opened per detect_questions call made
\* by detect_questions_in_pdf, and every document opened was closed.
C14_DetectorHandleReleased ==
    (dpc \in {"returned", "raised"} /\ dEarlier = <<>>) =>
        /\ ~dHandle
        /\ dOpens <= 1
        /\ dCloses = dOpens

\* No text block of the document matches a pattern.
NothingMatches ==
    LET blocks == Blocks
    IN  \A i \in DOMAIN blocks : MatchingPatterns(blocks[i].text) = {}

\* C17: a run with no match is not an error.  When no text block matches a
\* pattern, detect_questions can return once the document is open, the call
\* returns the empty mapping and count 0, and a failure of the call is a
\* failure of the open or of a library call of the extraction.
C17_NoMatchNoError ==
    NothingMatches =>
        /\ dpc = "opened" => ENABLED detect_questions
        /\ dpc = "detected" => question_mapping = EmptyDict /\ detected_questions = <<>>
        /\ dResult.returned => dResult.mapping = EmptyDict /\ dResult.count = 0
        /\ dError.raised => dError.stage \in {"open", "extract"}

\* A run over a document of two text blocks without label and a label in an
\* image block returned.
C17_Witness ==
    /\ dResult.returned
    /\ Len(doc) = 3
    /\ Len(Blocks) = 2
    /\ NothingMatches
    /\ dResult.count = 0

\* The numeric group of every pattern that matches the span's text parses.
Parses(span) ==
    \A k \in MatchingPatterns(Strip(span.text)) :
        IntParses(ReMatch(k, Strip(span.text)).group1)

\* C18: a fragment whose numeric group does not parse as an integer is
\* skipped.  No failure of the call comes from such a number, no key of the
\* mapping holds one, and the mapping and the list detect_questions leaves
\* are those of the document without the fragments that do not parse.
C18_ParseFailureSkipped ==
    /\ dError.raised => dError.cause # "ValueError"
    /\ Detected =>
          LET scan == Scan(SelectSeq(doc, Parses))
          IN  /\ \A q \in DOMAIN question_mapping.val : IntParses(SelectSeq(q, IsDigit))
              /\ question_mapping = DictInOrder(sort_questions(scan.detected), scan.mapping)
              /\ detected_questions = sorted_plain(scan.detected)

----------------------------------------------------------------------------
(* Properties of calls that share a question mapping *)

\* The page texts overlay_marks leaves for the correctness dict ms when the
\* call runs alone, from mark i on.
RECURSIVE AloneFrom(_, _)
AloneFrom(ms, i) ==
    IF i > Len(ms) THEN <<>>
    ELSE (IF Skipped(ms[i].id) THEN <<>>
          ELSE DrawMark(ms[i].id, ms[i].is_correct, template[ms[i].id]))
         \o AloneFrom(ms, i + 1)

\* A step changes neither the question mapping nor a correctness dict.
ReadOnlyStep ==
    /\ template' = template
    /\ \A c \in Callers : calls'[c].marks = calls[c].marks

\* The file of every call that returned holds the overlay the call draws
\* when it runs alone on the mapping the calls were given.
SameAsAlone ==
    \A c \in DOMAIN calls :
        calls[c].pc = "returned" => calls[c].output.texts = AloneFrom(calls[c].marks, 1)

\* C20: the question mapping is read-only during annotation.  No step of a
\* marking call changes the question mapping or a correctness dict, and each
\* of two interleaved calls that share the mapping writes the overlay it
\* writes when run alone.
C20_MappingReadOnly == [][ReadOnlyStep]_vars /\ []SameAsAlone

\* Both calls returned after drawing the mark of the same identifier.
C20_Witness ==
    /\ DOMAIN calls = Callers
    /\ \A c \in Callers : calls[c].pc = "returned"
    /\ \E i \in DOMAIN calls[1].output.texts : \E j \in DOMAIN calls[2].output.texts :
          calls[1].output.texts[i].question = calls[2].output.texts[j].question

----------------------------------------------------------------------------
(* Properties of the persisted template *)

\* The mapping read back from the column.
Reread == json_loads(stored)

----------------------------------------------------------------------------
(* Properties of fast_mark_exam *)

\* The latest request marked the submission and has been answered.
Marked == fpc = "idle" /\ marking.no = served /\ served > 0

\* mark_pdf_submission raised in the latest request.
GenerationRaised == Marked /\ fPath # <<>> /\ mpc = "raised"

\* mark_pdf_submission returned in the latest request.
GenerationReturned == Marked /\ fPath # <<>> /\ mpc = "returned"

\* The latest request marked without calling mark_pdf_submission.
GenerationSkipped == Marked /\ fPath = <<>>

\* C22: marking attempted, not generated.  When mark_pdf_submission raised
\* in a request, the score and the grader of the request are saved, the
\* distribution is scored, the MarkedExamSubmission row has is_generated
\* false and a generation_error that is not empty and carries the message
\* of the failure, and a further request for the submission is served.
C22_AttemptedNotGenerated ==
    GenerationRaised =>
        /\ submission.graded
        /\ marking.mode = "total_marks" => submission.score = <<marking.score, 2>>
        /\ marking.mode = "per_question" =>
               submission.score \in {<<marked.total_correct * TotalMarks, marked.total_questions>>,
                                     <<marked.total_correct, 1>>}
        /\ distribution = "scored"
        /\ marked.exists
        /\ ~marked.is_generated
        /\ marked.generation_error # <<>>
        /\ marked.generation_error = <<"Error marking PDF", mError.stage, mError.cause>>
        /\ served < MaxRequests => ENABLED fast_request

\* A second request failed in mark_pdf_submission after the first had
\* generated a marked PDF.
C22_Witness ==
    /\ GenerationRaised
    /\ served = 2
    /\ marked.marked_pdf_file # <<>>
    /\ mError.stage = "save"

\* The latest request was a POST in per-question mode for an exam whose
\* file detect_questions_in_pdf read, and it has been answered.
PerQuestionAnswered ==
    /\ fpc = "idle"
    /\ dpc = "returned"
    /\ \/ response = "No questions detected in exam"
       \/ Marked /\ marking.mode = "per_question"

\* The identifier has a QuestionAnswer row.
HasAnswer(q) == \E n \in DOMAIN answers : IntToStr(n) = q

\* C23: per-question mode offers every detected identifier.  After a POST
\* in per-question mode every key of the detected mapping, sub-part keys
\* such as "1a" included, has a QuestionAnswer row and one entry in the
\* correctness dict given to mark_pdf_submission, and total_questions is
\* the number of keys.
C23_EveryIdentifierOffered ==
    PerQuestionAnswered /\ dResult.mapping.keys # <<>> =>
        /\ Marked
        /\ \A q \in Range(dResult.mapping.keys) :
              /\ HasAnswer(q)
              /\ fPath # <<>> /\ Cardinality({i \in DOMAIN marks : marks[i].id = q}) = 1
        /\ marked.total_questions = Len(dResult.mapping.keys)

\* fast_mark_exam has just called mark_pdf_submission.
CallingMarker == fpc = "marking" /\ mpc = "start"

\* C24: the marks given to mark_pdf_submission are marks of the mapping
\* given with them.  At every call every key of the correctness dict is a
\* key of the question mapping, whatever the labels of the exam, so that
\* overlay_marks skips none of them as unknown.
C24_MarksAreMapped ==
    CallingMarker => /\ MarkKeys \subseteq DOMAIN template
                     /\ \A q \in MarkKeys : q \in DOMAIN fMapping.val

\* C25: a generated PDF is the PDF of the latest marking.  Between
\* requests, is_generated = true implies that the file marked_pdf_file
\* names was written by the latest request that marked the submission;
\* a marking that generated no PDF does not leave the flag set on the PDF
\* of an earlier marking.
C25_GeneratedIsLatest ==
    fpc = "idle" /\ marked.is_generated =>
        /\ marked.marked_pdf_file \in DOMAIN disk
        /\ disk[marked.marked_pdf_file].by = marking.no

\* C26: no more correct than questions.  Every MarkedExamSubmission row
\* fast_mark_exam has written, in either mode, has total_correct at most
\* total_questions.
C26_CorrectWithinTotal ==
    marked.exists => marked.total_correct <= marked.total_questions

\* min(int(s), n) for the score of the latest request and n questions
TrueEntries(n) ==
    IF IntOfScore(marking.score) < n THEN IntOfScore(marking.score) ELSE n

\* C27: total marks are spread over the first questions.  In total-marks
\* mode with n detected questions the correctness dict given to
\* mark_pdf_submission has one entry per detected question, and exactly
\* min(int(score), n) of them are true, those of the lowest-numbered
\* questions; the summary of the marked PDF reads min(int(score), n) of n.
C27_TotalMarksSpread ==
    LET n == Len(dResult.mapping.keys)
    IN  /\ CallingMarker /\ marking.mode = "total_marks" =>
              /\ Len(marks) = n
              /\ CorrectCount = TrueEntries(n)
              /\ \A i, j \in DOMAIN marks :
                    marks[i].is_correct /\ ~marks[j].is_correct =>
                        ParseInt(marks[i].id) < ParseInt(marks[j].id)
        /\ GenerationReturned /\ marking.mode = "total_marks" =>
              /\ mSummary.correct = TrueEntries(n)
              /\ mSummary.total = n

----------------------------------------------------------------------------
(* Properties of requests served at the same time *)

\* C28: one output path per request.  Two fast_mark_exam requests in
\* flight at once never save their marked PDF at the same path, whether
\* they are for two submissions or for one, in the same second or not.
C28_DistinctOutputPaths ==
    /\ \A r, o \in Requests :
          r # o /\ reqs[r].pc \in {"written", "done"} /\ reqs[o].pc \in {"written", "done"}
              => reqs[r].path # reqs[o].path
    /\ \A p \in DOMAIN disk : Cardinality(disk[p].by) <= 1

----------------------------------------------------------------------------
(* Properties of the files *)

\* The step leaves the file at the path as it is: there before and after,
\* with the same content, or at neither time.
Untouched(p) ==
    /\ p \in DOMAIN disk' <=> p \in DOMAIN disk
    /\ p \in DOMAIN disk => disk'[p] = disk[p]

\* C29: the source PDF is read only.  No step of detection or of marking
\* changes the exam's file; detect_questions_in_pdf changes no file at
\* all, and a marking changes at most the file at its output path, whether
\* mark_pdf_submission returned or raised.
C29_SourceUntouched ==
    [][/\ Untouched(ExamPath)
       /\ doc' = doc /\ dFile' = dFile
       /\ dpc' # dpc => disk' = disk
       /\ \A p \in DOMAIN disk \cup DOMAIN disk' : p # fPath => Untouched(p)]_vars

\* The exam's file is on disk beside a marked PDF and beside the part of
\* one that a failed save left, both made from it.
C29_Witness ==
    /\ ExamPath \in DOMAIN disk
    /\ \E p, q \in DOMAIN disk \ {ExamPath} :
          disk[p].file.complete /\ ~disk[q].file.complete

----------------------------------------------------------------------------
(* Properties of mark_exam_paper *)

\* The scores of ScoreStrings that are negative, above the marks of the exam
\* or no number.
BadScores ==
    { <<"1", "0", "0", ".", "5">>,
      <<"1", "0", "1">>,
      <<"-", "1">>,
      <<"-", "0", ".", "5">>,
      <<"a", "b", "c">>,
      <<"7", "a">>,
      <<"N", "a", "N">>,
      <<"I", "n", "f", "i", "n", "i", "t", "y">> }

\* The request was answered with an error and not with the marking.
Refused ==
    response \in {"Score cannot be negative", "Score cannot exceed total_marks",
                  "decimal.InvalidOperation"}

\* The score of the submission is empty or lies in [0, exam.total_marks].
ScoreWithin ==
    IF submission.score = <<>> THEN TRUE
    ELSE /\ 0 <= submission.score[1]
         /\ submission.score[1] <= TotalMarks * submission.score[2]

\* The step serves a POST whose score is one of BadScores.
BadPost ==
    IF posted'.method = "POST" THEN posted'.score \in BadScores ELSE FALSE

====
